---- MODULE Spec2Model ----
(***************************************************************************)
(* Model of TokenBuyer (buy-tokens script): one TokenBuyer object on which *)
(* the caller starts initializeSDK and buyTokens calls.   Every call is an  *)
(* async function: it runs up to its next await in one step, so calls      *)
(* interleave at the awaits.  The PumpFun SDK, the RPC connection and the  *)
(* ledger behind them are the environment: each awaited call may return    *)
(* any answer its interface allows, or throw.                              *)
(*                                                                         *)
(* Further specifications over the same variables model one call at a time *)
(* on a TokenBuyer or a TokenCreator (OpsSpec), the script's main()        *)
(* (MainSpec), the wallet loaders of utils/wallet.ts (WalletSpec), the     *)
(* slippage floor (FloorSpec), ProviderManager (ProviderSpec), the basic   *)
(* example (ExampleSpec) and getOrCreateKeypair (KeySpec).                 *)
(***************************************************************************)
EXTENDS Integers, Sequences, FiniteSets, TLC

\* Number of buyTokens calls the caller makes on the object (besides the one
\* initializeSDK call).
NumCalls == 2
Calls == 1..NumCalls

\* Mint addresses a caller may pass: M1 is listed on the bonding curve, M2 is
\* a valid address with no bonding-curve account, "bad" is no valid address.
MintAddrs == {"M1", "M2", "bad"}
Curves == {"M1"}

\* config.slippageBasisPoints as passed: NoSlippage stands for an absent field.
NoSlippage == -1
SlippageInputs == {NoSlippage, 0}

\* The same field when the caller is not held to the range 0..10000.
AnySlippage == {NoSlippage, 0, 10000, 10001}
DefaultSlippage == 500

\* sellTokens passes BigInt(500) whatever the caller wants.
SellSlippage == 500

VARIABLES
    sdk,          \* this.sdk is set (not null)
    init,         \* the initializeSDK call: its position and outcome
    call,         \* per call: the method, its position and its locals
    submissions,  \* every sdk.buy invocation, in order, with the ledger's view
    disk,         \* records the program has written to durable storage
    klass,        \* the class of the object: a TokenBuyer or "TokenCreator"
    balance,      \* lamports held by the wallet's account
    main,         \* the script's main(): its position
    files,        \* the wallets directory: the content of each wallet file
    load,         \* the last call of a wallet loader: its reads and result
    quote,        \* a quote of the price model: expected output, slippage, floor
    env,          \* process.env: the variables that are set, with their values
    provider,     \* a ProviderManager: its config and its last validation
    ex,           \* the basic example's main(): its position, locals and SDK calls
    chain,        \* the ledger as the basic example sees it
    keys          \* the keys folder of getOrCreateKeypair and its calls

\* What lies outside the buy-tokens / create-token scripts and their wallets.
extraVars == <<env, provider, ex, chain, keys>>

vars == <<sdk, init, call, submissions, disk, klass, balance, main, files,
          load, quote, extraVars>>

\* What a call on the object leaves alone.
others == <<klass, balance, main, files, load, quote, extraVars>>

Idle == [op |-> "none", pc |-> "idle", mint |-> "M1", slip |-> 0,
         sig |-> 0, outcome |-> "none", msg |-> "", thrown |-> FALSE]

\* Variant: the value is brought into the range 0..10000.
EffectiveSlippageClamped(s) ==
    IF s = NoSlippage THEN DefaultSlippage
    ELSE IF s > 10000 THEN 10000 ELSE s

\* slippageBasisPoints = 500 when the config leaves it out
EffectiveSlippage(s) == IF s = NoSlippage THEN DefaultSlippage ELSE s

\* The intent of a call: what a caller would hash to recognise a repeat.
Intent(c) == <<call[c].op, call[c].mint, EffectiveSlippage(call[c].slip)>>

\* The call ends by throwing e (every catch block logs and rethrows).
Throw(c, e) ==
    [call EXCEPT ![c].pc = "done", ![c].outcome = e, ![c].thrown = TRUE]

\* The two classes named TokenBuyer: the one of part_000 and the earlier
\* revision of the same script in part_001.
TokenBuyers == {"TokenBuyer", "TokenBuyer (part_001)"}

\* if (!result.success) throw ...: only the TokenBuyer of part_000 has it.
ChecksSuccess == klass = "TokenBuyer"

\* The submission whose result call c holds: the last one its SDK call made.
LastSubmission(c) ==
    CHOOSE i \in DOMAIN submissions :
        /\ submissions[i].call = c
        /\ \A j \in DOMAIN submissions : submissions[j].call = c => j <= i

\* The call goes on to confirmTransaction with result.signature: the
\* signature of a result "ok", undefined (0) for a result without one.
ToConfirm(c, r) ==
    [call EXCEPT ![c].pc = "confirm",
                 ![c].sig = IF r = "ok" THEN Len(submissions) + 1 ELSE 0]

\* Variant: the operations do not look at this.sdk.
SdkMissingIgnored == FALSE

\* if (!this.sdk), the first statement of every operation.
SdkMissing == ~sdk

\* The call moves on to its next await.
Goto(c, p) == [call EXCEPT ![c].pc = p]

\* DEVNET_CONFIG.SETTINGS.MIN_SOL_BALANCE (0.01 SOL) and MIN_SOL_FOR_CREATION
\* (0.05 SOL), in lamports: for a whole number b of lamports,
\* b / LAMPORTS_PER_SOL < 0.01 exactly when b < 10000000.
MIN_SOL_BALANCE == 10000000
MIN_SOL_FOR_CREATION == 50000000

\* BigInt(Math.floor(buyAmountSol * LAMPORTS_PER_SOL)) for the 0.0001 SOL that
\* main() buys.
BuyAmountLamports == 100000

\* Balances the wallet's account may hold.
Balances == {0, MIN_SOL_BALANCE - 1, MIN_SOL_BALANCE, MIN_SOL_FOR_CREATION}

\* A freshly constructed object: this.sdk = null, nothing called yet.
NewObject ==
    /\ sdk = FALSE
    /\ init = [pc |-> "idle", outcome |-> "none", warned |-> FALSE]
    /\ call = [c \in Calls |-> Idle]
    /\ submissions = <<>>
    /\ disk = {}

-----------------------------------------------------------------------------
\* initializeSDK

\* Synchronous head of initializeSDK: the wallet load and the provider may
\* throw; otherwise this.sdk is assigned and checkWalletBalance is awaited.
InitializeSDK ==
    /\ init.pc = "idle"
    /\ \E r \in {"wallet", "provider", "ok"} :
         IF r = "ok"
         THEN /\ sdk' = TRUE
              /\ init' = [init EXCEPT !.pc = "balance"]
         ELSE /\ sdk' = sdk
              /\ init' = [init EXCEPT !.pc = "done", !.outcome = r]
    /\ UNCHANGED <<call, submissions, disk>>
    /\ UNCHANGED others

\* The balance below which checkWalletBalance warns.
MinBalance ==
    IF klass \in TokenBuyers THEN MIN_SOL_BALANCE ELSE MIN_SOL_FOR_CREATION

\* Variant: a balance below the minimum fails initializeSDK.
AfterBalanceReject(b) ==
    IF b < MinBalance
    THEN [pc |-> "done", outcome |-> "InsufficientFunds", warned |-> FALSE]
    ELSE [pc |-> "done", outcome |-> "resolved", warned |-> FALSE]

\* checkWalletBalance once getBalance has answered b: a low balance prints a
\* warning, and the call returns either way.
AfterBalance(b) ==
    [pc |-> "done", outcome |-> "resolved", warned |-> b < MinBalance]

\* checkWalletBalance: a low balance only warns, a failed read is rethrown.
InitBalance ==
    /\ init.pc = "balance"
    /\ \E rpcOk \in BOOLEAN :
         init' = IF rpcOk THEN AfterBalance(balance)
                 ELSE [init EXCEPT !.pc = "done", !.outcome = "rpc"]
    /\ UNCHANGED <<sdk, call, submissions, disk>>
    /\ UNCHANGED others

-----------------------------------------------------------------------------
\* The ledger behind sdk.buy and connection.confirmTransaction

\* Output the bonding curve quotes for a buy at submission time.
ExpectedOut == 100

\* Outputs the ledger may realise when it executes the trade (the price may
\* have moved since the quote).
Realizable == {ExpectedOut - 10, ExpectedOut - 5, ExpectedOut}

\* Variant: the division comes first, so the remainder of expected is lost
\* before the haircut is applied.
MinAcceptableDivideFirst(expected, slippageBps) ==
    (expected \div 10000) * (10000 - slippageBps)

\* floor = expected * (1 - slippageBps / 10000), in integer arithmetic
MinAcceptable(expected, slippageBps) ==
    (expected * (10000 - slippageBps)) \div 10000

\* The ledger-side check: the trade executes only at or above the floor.
LedgerAccepts(floor, realized) == realized >= floor

\* confirmation.value.err as the RPC node reports it (TransactionError): a
\* plain string for the simple errors, an object for an instruction error
\* such as the program's slippage check.
NoErr == [kind |-> "none", detail |-> ""]
SlippageErr == [kind |-> "object", detail |-> "InstructionError"]
FeeErr == [kind |-> "string", detail |-> "InsufficientFundsForFee"]

\* `${err}` in a template literal: a string as it is, an object through
\* Object.prototype.toString.
TemplateString(err) ==
    IF err.kind = "string" THEN err.detail ELSE "[object Object]"

\* Invocations of sdk.buy made by call c so far.
SubmitsBy(c) ==
    Cardinality({i \in DOMAIN submissions : submissions[i].call = c})

\* What one sdk.buy invocation leaves behind: result is "ok" (success with a
\* signature), "fail" (success = false) or "throw" (the promise rejected).
NewSubmission(c, r) ==
    [call     |-> c,
     intent   |-> Intent(c),
     result   |-> r,
     status   |-> IF r = "ok" THEN "pending" ELSE "none",
     floor    |-> MinAcceptable(ExpectedOut, EffectiveSlippage(call[c].slip)),
     realized |-> 0,
     err      |-> NoErr,
     polls    |-> 0,
     wait     |-> "none"]

\* The ledger finalises a pending transaction: an account holding nothing
\* cannot pay the fee; otherwise it executes the trade, or rejects it when the
\* realised output is below the declared floor.
LedgerFinalize(i) ==
    /\ i \in DOMAIN submissions
    /\ submissions[i].status = "pending"
    /\ \E r \in Realizable :
         submissions' =
            [submissions EXCEPT ![i] =
                IF balance = 0
                THEN [@ EXCEPT !.status = "err", !.err = FeeErr]
                ELSE IF LedgerAccepts(submissions[i].floor, r)
                THEN [@ EXCEPT !.status = "ok", !.realized = r]
                ELSE [@ EXCEPT !.status = "err", !.err = SlippageErr]]
    /\ UNCHANGED <<sdk, init, call, disk>>
    /\ UNCHANGED others

-----------------------------------------------------------------------------
\* buyTokens

\* Synchronous head of buyTokens: the sdk check, the wallet load, the
\* PublicKey of the mint address; then the first await (getTokenInfo).
BuyTokensWith(c, slippages) ==
    /\ klass \in TokenBuyers
    /\ call[c].pc = "idle"
    /\ \E m \in MintAddrs, s \in slippages, walletLoads \in BOOLEAN :
         LET started == [call EXCEPT ![c].op = "buy", ![c].mint = m, ![c].slip = s]
             fail(e) == [started EXCEPT ![c].pc = "done", ![c].outcome = e,
                                        ![c].thrown = TRUE]
         IN  call' = IF SdkMissing THEN fail("SDK not initialized")
                     ELSE IF ~walletLoads THEN fail("wallet")
                     ELSE IF m = "bad" THEN fail("Invalid public key")
                     ELSE [started EXCEPT ![c].pc = "info1"]
    /\ UNCHANGED <<sdk, init, submissions, disk>>
    /\ UNCHANGED others

BuyTokens(c) == BuyTokensWith(c, SlippageInputs)

\* getTokenInfo before the buy: the lookup's answer is only logged, a throw
\* of the lookup is rethrown.
BuyInfo1(c) ==
    /\ call[c].op = "buy" /\ call[c].pc = "info1"
    /\ \E rpcOk \in BOOLEAN :
         call' = IF rpcOk THEN Goto(c, "lookup") ELSE Throw(c, "rpc")
    /\ UNCHANGED <<sdk, init, submissions, disk>>
    /\ UNCHANGED others

\* "Check if token exists": no bonding-curve account ends the call.
BuyLookup(c) ==
    /\ call[c].op = "buy" /\ call[c].pc = "lookup"
    /\ \E rpcOk \in BOOLEAN :
         call' = IF ~rpcOk THEN Throw(c, "rpc")
                 ELSE IF call[c].mint \notin Curves THEN Throw(c, "Token not found")
                 ELSE Goto(c, "submit")
    /\ UNCHANGED <<sdk, init, submissions, disk>>
    /\ UNCHANGED others

\* Variant: the buy is held back while an earlier submission of the same
\* intent is on record.
ReadyToSubmitDedup(c) ==
    /\ call[c].op = "buy" /\ call[c].pc = "submit"
    /\ \A i \in DOMAIN submissions : submissions[i].intent # Intent(c)

\* A call that has reached the buy issues it: nothing else is consulted.
ReadyToSubmit(c) == call[c].op = "buy" /\ call[c].pc = "submit"

\* Variant: a rejected sdk.buy is retried, up to three attempts.
AfterSubmitThrowRetry(c) ==
    IF SubmitsBy(c) < 2 THEN call ELSE Throw(c, "network")

\* sdk.buy rejected: the catch block logs and rethrows.
AfterSubmitThrow(c) == Throw(c, "network")

\* Variant: the new submission is recorded on disk.
DiskAfterSubmitRecorded(c) ==
    disk \cup {[kind |-> "submission", sig |-> Len(submissions) + 1]}

\* What buyTokens writes to durable storage when sdk.buy has returned:
\* nothing (the signature goes to the console only).
DiskAfterSubmit(c) == disk

BuySubmit(c) ==
    /\ ReadyToSubmit(c)
    /\ \E r \in {"ok", "fail", "throw"} :
         /\ submissions' = Append(submissions, NewSubmission(c, r))
         /\ call' = CASE r = "ok"    -> ToConfirm(c, r)
                      [] r = "fail"  -> IF ChecksSuccess THEN Throw(c, "Buy failed")
                                        ELSE ToConfirm(c, r)
                      [] r = "throw" -> AfterSubmitThrow(c)
    /\ disk' = DiskAfterSubmit(c)
    /\ UNCHANGED <<sdk, init>>
    /\ UNCHANGED others

\* Variant: a confirmation carrying err is taken for a success.
AfterConfirmIgnoreErr(c, answer) ==
    CASE answer = "ok"      -> Goto(c, "info2")
      [] answer = "err"     -> Goto(c, "info2")
      [] answer = "timeout" -> Throw(c, "timeout")

\* Variant: after a timeout the buy is submitted again (once).
AfterConfirmResubmit(c, answer) ==
    CASE answer = "ok"      -> Goto(c, "info2")
      [] answer = "err"     -> Throw(c, "Transaction failed")
      [] answer = "timeout" -> IF SubmitsBy(c) < 2 THEN Goto(c, "submit")
                               ELSE Throw(c, "timeout")

\* Variant: after a timeout the status is queried again (once).
AfterConfirmRequery(c, answer) ==
    CASE answer = "ok"      -> Goto(c, "info2")
      [] answer = "err"     -> Throw(c, "Transaction failed")
      [] answer = "timeout" -> IF submissions[LastSubmission(c)].polls < 1 THEN call
                               ELSE Throw(c, "timeout")

\* The error thrown for a confirmation carrying err:
\* new Error(`Transaction failed: ${confirmation.value.err}`).
TransactionFailed(c) ==
    [Throw(c, "Transaction failed") EXCEPT
        ![c].msg = TemplateString(submissions[call[c].sig].err)]

\* What the call does with the answer of confirmTransaction: "ok" is a
\* confirmation without err, "err" one with err, "timeout" a rejected promise.
AfterConfirm(c, answer) ==
    CASE answer = "ok"      -> Goto(c, "info2")
      [] answer = "err"     -> TransactionFailed(c)
      [] answer = "timeout" -> Throw(c, "timeout")

\* Answers confirmTransaction can give for a transaction in ledger state st.
ConfirmAnswers(st) ==
    {"timeout"} \cup (IF st = "ok" THEN {"ok"} ELSE {})
                \cup (IF st = "err" THEN {"err"} ELSE {})

BuyConfirm(c) ==
    /\ call[c].op = "buy" /\ call[c].pc = "confirm"
    /\ \E answer \in ConfirmAnswers(submissions[LastSubmission(c)].status) :
         /\ call' = AfterConfirm(c, answer)
         /\ submissions' = [submissions EXCEPT ![LastSubmission(c)].polls = @ + 1,
                                               ![LastSubmission(c)].wait = answer]
    /\ UNCHANGED <<sdk, init, disk>>
    /\ UNCHANGED others

\* getTokenInfo after the confirmation: a throw of the lookup is rethrown.
BuyInfo2(c) ==
    /\ call[c].op = "buy" /\ call[c].pc = "info2"
    /\ \E rpcOk \in BOOLEAN :
         call' = IF rpcOk THEN [call EXCEPT ![c].pc = "done", ![c].outcome = "resolved"]
                 ELSE Throw(c, "info")
    /\ UNCHANGED <<sdk, init, submissions, disk>>
    /\ UNCHANGED others

-----------------------------------------------------------------------------
\* getTokenInfo and checkWalletBalance called on their own

\* Synchronous head of getTokenInfo: the sdk check, the PublicKey of the mint
\* address; then the await of getBondingCurveAccount.
GetTokenInfo(c) ==
    /\ klass \in TokenBuyers
    /\ call[c].pc = "idle"
    /\ \E m \in MintAddrs :
         LET started == [call EXCEPT ![c].op = "info", ![c].mint = m]
             fail(e) == [started EXCEPT ![c].pc = "done", ![c].outcome = e,
                                        ![c].thrown = TRUE]
         IN  call' = IF SdkMissing THEN fail("SDK not initialized")
                     ELSE IF m = "bad" THEN fail("Invalid public key")
                     ELSE [started EXCEPT ![c].pc = "curve"]
    /\ UNCHANGED <<sdk, init, submissions, disk>>
    /\ UNCHANGED others

\* The bonding-curve account, or null, is logged; a throw is rethrown.
GetTokenInfoAnswer(c) ==
    /\ call[c].op = "info" /\ call[c].pc = "curve"
    /\ \E rpcOk \in BOOLEAN :
         call' = IF rpcOk THEN [call EXCEPT ![c].pc = "done", ![c].outcome = "resolved"]
                 ELSE Throw(c, "rpc")
    /\ UNCHANGED <<sdk, init, submissions, disk>>
    /\ UNCHANGED others

\* Synchronous head of checkWalletBalance(wallet): the sdk check, then the
\* await of getBalance.
CheckWalletBalance(c) ==
    /\ call[c].pc = "idle"
    /\ LET started == [call EXCEPT ![c].op = "balance"]
       IN  call' = IF SdkMissing
                   THEN [started EXCEPT ![c].pc = "done",
                                        ![c].outcome = "SDK not initialized",
                                        ![c].thrown = TRUE]
                   ELSE [started EXCEPT ![c].pc = "getBalance"]
    /\ UNCHANGED <<sdk, init, submissions, disk>>
    /\ UNCHANGED others

\* The balance is logged, with a warning when it is low; a throw of
\* getBalance leaves the method.
CheckWalletBalanceAnswer(c) ==
    /\ call[c].op = "balance" /\ call[c].pc = "getBalance"
    /\ \E rpcOk \in BOOLEAN :
         call' = IF rpcOk THEN [call EXCEPT ![c].pc = "done", ![c].outcome = "resolved"]
                 ELSE Throw(c, "rpc")
    /\ UNCHANGED <<sdk, init, submissions, disk>>
    /\ UNCHANGED others

-----------------------------------------------------------------------------
\* sellTokens (TokenBuyer)

\* Synchronous head of sellTokens: the sdk check, the wallet load, the
\* PublicKey of the mint address; then sdk.sell is awaited, with no lookup of
\* the bonding curve before it.  The slippage is the literal BigInt(500).
SellTokens(c) ==
    /\ klass \in TokenBuyers
    /\ call[c].pc = "idle"
    /\ \E m \in MintAddrs, walletLoads \in BOOLEAN :
         LET started == [call EXCEPT ![c].op = "sell", ![c].mint = m,
                                     ![c].slip = SellSlippage]
             fail(e) == [started EXCEPT ![c].pc = "done", ![c].outcome = e,
                                        ![c].thrown = TRUE]
         IN  call' = IF SdkMissing THEN fail("SDK not initialized")
                     ELSE IF ~walletLoads THEN fail("wallet")
                     ELSE IF m = "bad" THEN fail("Invalid public key")
                     ELSE [started EXCEPT ![c].pc = "submit"]
    /\ UNCHANGED <<sdk, init, submissions, disk>>
    /\ UNCHANGED others

\* Answers of the SDK for a trade on mint m: it cannot report a signature
\* for a mint that has no bonding curve.
SdkResults(m) == IF m \in Curves THEN {"ok", "fail", "throw"} ELSE {"fail", "throw"}

\* Variant: sellTokens looks the bonding curve up first, as buyTokens does.
SellMayIssueChecked(c) ==
    call[c].op = "sell" /\ call[c].pc = "submit" /\ call[c].mint \in Curves

\* A sellTokens call that has its wallet and mint issues sdk.sell.
SellMayIssue(c) == call[c].op = "sell" /\ call[c].pc = "submit"

SellSubmit(c) ==
    /\ SellMayIssue(c)
    /\ \E r \in SdkResults(call[c].mint) :
         /\ submissions' = Append(submissions, NewSubmission(c, r))
         /\ call' = CASE r = "ok"    -> ToConfirm(c, r)
                      [] r = "fail"  -> IF ChecksSuccess THEN Throw(c, "Sell failed")
                                        ELSE ToConfirm(c, r)
                      [] r = "throw" -> Throw(c, "network")
    /\ UNCHANGED <<sdk, init, disk>>
    /\ UNCHANGED others

\* Variant: the call resolves whatever confirmTransaction answered.
AfterSellConfirmAnyway(c, answer) ==
    [call EXCEPT ![c].pc = "done", ![c].outcome = "resolved"]

\* What sellTokens does with the answer of confirmTransaction.
AfterSellConfirm(c, answer) ==
    CASE answer = "ok"      -> [call EXCEPT ![c].pc = "done", ![c].outcome = "resolved"]
      [] answer = "err"     -> TransactionFailed(c)
      [] answer = "timeout" -> Throw(c, "timeout")

SellConfirm(c) ==
    /\ call[c].op = "sell" /\ call[c].pc = "confirm"
    /\ \E answer \in ConfirmAnswers(submissions[LastSubmission(c)].status) :
         /\ call' = AfterSellConfirm(c, answer)
         /\ submissions' = [submissions EXCEPT ![LastSubmission(c)].polls = @ + 1,
                                               ![LastSubmission(c)].wait = answer]
    /\ UNCHANGED <<sdk, init, disk>>
    /\ UNCHANGED others

-----------------------------------------------------------------------------
\* createAndBuyToken (TokenCreator)

\* Synchronous head of createAndBuyToken: the sdk check, the wallet load, a
\* fresh mint keypair; then sdk.createAndBuy is awaited.
CreateAndBuyToken(c) ==
    /\ klass = "TokenCreator"
    /\ call[c].pc = "idle"
    /\ \E s \in AnySlippage, walletLoads \in BOOLEAN :
         LET started == [call EXCEPT ![c].op = "create", ![c].mint = "new",
                                     ![c].slip = s]
             fail(e) == [started EXCEPT ![c].pc = "done", ![c].outcome = e,
                                        ![c].thrown = TRUE]
         IN  call' = IF SdkMissing THEN fail("SDK not initialized")
                     ELSE IF ~walletLoads THEN fail("wallet")
                     ELSE [started EXCEPT ![c].pc = "submit"]
    /\ UNCHANGED <<sdk, init, submissions, disk>>
    /\ UNCHANGED others

\* sdk.createAndBuy has answered.  The result's success flag is not looked
\* at: a result without a signature goes on to confirmTransaction too.
CreateSubmit(c) ==
    /\ call[c].op = "create" /\ call[c].pc = "submit"
    /\ \E r \in {"ok", "fail", "throw"} :
         /\ submissions' = Append(submissions, NewSubmission(c, r))
         /\ call' = CASE r \in {"ok", "fail"} -> ToConfirm(c, r)
                      [] r = "throw"         -> Throw(c, "network")
    /\ UNCHANGED <<sdk, init, disk>>
    /\ UNCHANGED others

\* What createAndBuyToken does with the answer of confirmTransaction.
AfterCreateConfirm(c, answer) ==
    CASE answer = "ok"      -> Goto(c, "info2")
      [] answer = "err"     -> TransactionFailed(c)
      [] answer = "timeout" -> Throw(c, "timeout")

CreateConfirm(c) ==
    /\ call[c].op = "create" /\ call[c].pc = "confirm"
    /\ \E answer \in ConfirmAnswers(submissions[LastSubmission(c)].status) :
         /\ call' = AfterCreateConfirm(c, answer)
         /\ submissions' = [submissions EXCEPT ![LastSubmission(c)].polls = @ + 1,
                                               ![LastSubmission(c)].wait = answer]
    /\ UNCHANGED <<sdk, init, disk>>
    /\ UNCHANGED others

\* TokenCreator.getTokenInfo catches and logs a failed read; the call goes on
\* to saveMintInfo.
AfterCreateInfo(c, rpcOk) ==
    [call EXCEPT ![c].pc = "save",
                 ![c].msg = IF rpcOk THEN "" ELSE "Error getting token info"]

\* getTokenInfo after the confirmation: getBondingCurveAccount has answered.
CreateInfo(c) ==
    /\ call[c].op = "create" /\ call[c].pc = "info2"
    /\ \E rpcOk \in BOOLEAN : call' = AfterCreateInfo(c, rpcOk)
    /\ UNCHANGED <<sdk, init, submissions, disk>>
    /\ UNCHANGED others

\* Values Date.now() may give, whatever the stamps of the files on disk: the
\* wall clock may have been set back between two calls.
Clocks == {1, 2}

\* The file mint-<symbol>-<Date.now()>.json with the mint of submission sig
\* (the symbol is the one of the script, "MAT").
MintFile(sig, ts) == [kind |-> "mint", sig |-> sig, ts |-> ts]

\* fs.writeFileSync(filepath, ...): a file of the same name is replaced.
WriteMintFile(d, sig, ts) ==
    {f \in d : ~(f.kind = "mint" /\ f.ts = ts)} \cup {MintFile(sig, ts)}

\* createAndBuyToken goes on after getTokenInfo: saveMintInfo writes the
\* file in its synchronous body; a failed write only warns.
CreateSave(c) ==
    /\ call[c].op = "create" /\ call[c].pc = "save"
    /\ \E written \in BOOLEAN, ts \in Clocks :
         disk' = IF written THEN WriteMintFile(disk, call[c].sig, ts) ELSE disk
    /\ call' = Goto(c, "saved")
    /\ UNCHANGED <<sdk, init, submissions>>
    /\ UNCHANGED others

\* createAndBuyToken goes on after saveMintInfo and returns.
CreateReturn(c) ==
    /\ call[c].op = "create" /\ call[c].pc = "saved"
    /\ call' = [call EXCEPT ![c].pc = "done", ![c].outcome = "resolved"]
    /\ UNCHANGED <<sdk, init, submissions, disk>>
    /\ UNCHANGED others

\* saveMintInfo called on its own: it does not look at this.sdk; the file is
\* written in the call and the promise resolves whether or not the write
\* succeeded.
SaveMintInfo(c) ==
    /\ klass = "TokenCreator"
    /\ call[c].pc = "idle"
    /\ \E written \in BOOLEAN, ts \in Clocks :
         disk' = IF written THEN WriteMintFile(disk, 0, ts) ELSE disk
    /\ call' = [call EXCEPT ![c].op = "saveMintInfo", ![c].mint = "new",
                            ![c].pc = "done", ![c].outcome = "resolved"]
    /\ UNCHANGED <<sdk, init, submissions>>
    /\ UNCHANGED others

-----------------------------------------------------------------------------
\* WalletManager (utils/wallet.ts).  Its methods are synchronous: each call is
\* one step.

\* Entries a secret key has.
KeyLength == 64

WalletFiles == {"trading-wallet.json", "trading-private_key.txt",
                "test-wallet.json", "test-private_key.txt"}

\* What a file of the wallets directory may hold, by what the loaders make
\* of it: whether it exists; whether JSON.parse throws on it ("error"),
\* yields an array or yields something else; the length of that array; the
\* number of pieces split(",") cuts it into; and whether the 64 bytes that
\* new Uint8Array makes of the entries are a secret key that
\* Keypair.fromSecretKey accepts (on the JSON reading, on the split reading).
Content(exists, json, jsonLen, csvLen, jsonKey, csvKey) ==
    [exists |-> exists, json |-> json, jsonLen |-> jsonLen, csvLen |-> csvLen,
     jsonKey |-> jsonKey, csvKey |-> csvKey]

Missing == Content(FALSE, "error", 0, 0, FALSE, FALSE)
Garbage == Content(TRUE, "error", 0, 1, FALSE, FALSE)
JsonObject == Content(TRUE, "other", 0, 1, FALSE, FALSE)

\* A JSON array of n entries; split(",") cuts its text into n pieces too.
JsonArray(n, jsonKey, csvKey) == Content(TRUE, "array", n, n, jsonKey, csvKey)

\* n comma-separated numbers (n > 1): no JSON.
CsvList(n, csvKey) == Content(TRUE, "error", 0, n, FALSE, csvKey)

Contents ==
    {Missing, Garbage, JsonObject,
     JsonArray(KeyLength - 1, FALSE, FALSE), JsonArray(KeyLength + 1, FALSE, FALSE),
     JsonArray(KeyLength, TRUE, FALSE), JsonArray(KeyLength, TRUE, TRUE),
     JsonArray(KeyLength, FALSE, FALSE),
     CsvList(KeyLength - 1, FALSE), CsvList(KeyLength + 1, FALSE),
     CsvList(KeyLength, TRUE), CsvList(KeyLength, FALSE)}

\* The result of a loader: the keypair read from file f, or a thrown Error.
Keypair(f) == [ok |-> TRUE, key |-> f, error |-> ""]
Thrown(e) == [ok |-> FALSE, key |-> "", error |-> e]

\* Variant: the array check is left out, any JSON value goes to fromSecretKey.
LoadWalletFromFileUnchecked(f) ==
    IF ~files[f].exists THEN Thrown("Wallet file not found")
    ELSE IF files[f].json = "error" THEN Thrown("Failed to load wallet")
    ELSE Keypair(f)

\* loadWalletFromFile(f)
LoadWalletFromFile(f) ==
    IF ~files[f].exists THEN Thrown("Wallet file not found")
    ELSE IF files[f].json = "error" THEN Thrown("Failed to load wallet")
    ELSE IF files[f].json # "array" \/ files[f].jsonLen # KeyLength
         THEN Thrown("Failed to load wallet")
    ELSE IF ~files[f].jsonKey THEN Thrown("Failed to load wallet")
    ELSE Keypair(f)

\* loadWalletFromPrivateKey(f)
LoadWalletFromPrivateKey(f) ==
    IF ~files[f].exists THEN Thrown("Private key file not found")
    ELSE IF files[f].csvLen # KeyLength
         THEN Thrown("Failed to load wallet from private key file")
    ELSE IF ~files[f].csvKey THEN Thrown("Failed to load wallet from private key file")
    ELSE Keypair(f)

\* Variant: the private-key file is tried first.
LoadWithFallbackKeyFirst(jsonFile, keyFile) ==
    LET first == LoadWalletFromPrivateKey(keyFile)
        second == LoadWalletFromFile(jsonFile)
    IN  IF first.ok THEN [result |-> first, touched |-> {keyFile}]
        ELSE IF second.ok THEN [result |-> second, touched |-> {jsonFile, keyFile}]
        ELSE [result |-> Thrown("Failed to load wallet. Fallback also failed"),
              touched |-> {jsonFile, keyFile}]

\* The body shared by loadTradingWallet and loadTestWallet: the JSON file
\* first, the private-key file in the catch block, one Error for both
\* failures.  touched is the set of files the call has looked at.
LoadWithFallback(jsonFile, keyFile) ==
    LET first == LoadWalletFromFile(jsonFile)
        second == LoadWalletFromPrivateKey(keyFile)
    IN  IF first.ok THEN [result |-> first, touched |-> {jsonFile}]
        ELSE IF second.ok THEN [result |-> second, touched |-> {jsonFile, keyFile}]
        ELSE [result |-> Thrown("Failed to load wallet. Fallback also failed"),
              touched |-> {jsonFile, keyFile}]

NoLoad == [fn |-> "none", arg |-> "", result |-> Thrown(""), touched |-> {}]

\* What a call on the WalletManager leaves alone.
objectVars ==
    <<sdk, init, call, submissions, disk, klass, balance, main, quote, extraVars>>

CallLoadWalletFromFile(f) ==
    /\ load' = [fn |-> "loadWalletFromFile", arg |-> f,
                result |-> LoadWalletFromFile(f), touched |-> {f}]
    /\ UNCHANGED <<files, objectVars>>

CallLoadWalletFromPrivateKey(f) ==
    /\ load' = [fn |-> "loadWalletFromPrivateKey", arg |-> f,
                result |-> LoadWalletFromPrivateKey(f), touched |-> {f}]
    /\ UNCHANGED <<files, objectVars>>

LoadTradingWallet ==
    /\ LET r == LoadWithFallback("trading-wallet.json", "trading-private_key.txt")
       IN  load' = [fn |-> "loadTradingWallet", arg |-> "",
                    result |-> r.result, touched |-> r.touched]
    /\ UNCHANGED <<files, objectVars>>

LoadTestWallet ==
    /\ LET r == LoadWithFallback("test-wallet.json", "test-private_key.txt")
       IN  load' = [fn |-> "loadTestWallet", arg |-> "",
                    result |-> r.result, touched |-> r.touched]
    /\ UNCHANGED <<files, objectVars>>

-----------------------------------------------------------------------------
\* main() of the buy-tokens script: initializeSDK("trading"), then buyTokens
\* with the configuration written in the script, all inside one try block.

\* slippageBasisPoints of main's buyConfig.
MainSlippage == 500

\* Variant: the catch block logs the error and main returns.
MainCatchSwallow == "returned"

\* The catch block of main: console.error, then process.exit(1).
MainCatch == "exit1"

\* main up to its first await: the object is constructed and listWallets is
\* called; its readdirSync of ./wallets throws when the path is there but
\* cannot be listed (a regular file, say), and main's catch takes the error
\* before initializeSDK is called.
MainStart ==
    /\ main = "start"
    /\ \E listed \in BOOLEAN : main' = IF listed THEN "init" ELSE MainCatch
    /\ UNCHANGED <<sdk, init, call, submissions, disk, klass, balance, files,
                   load, quote, extraVars>>

\* await buyer.initializeSDK("trading") has settled.
MainAfterInit ==
    /\ main = "init" /\ init.pc = "done"
    /\ main' = IF init.outcome = "resolved" THEN "buy" ELSE MainCatch
    /\ UNCHANGED <<sdk, init, call, submissions, disk, klass, balance, files,
                   load, quote, extraVars>>

\* main calls buyTokens(buyConfig): a valid address, slippage 500.
MainBuyTokens ==
    /\ main = "buy"
    /\ BuyTokensWith(1, {MainSlippage})
    /\ call'[1].mint # "bad"

\* await buyer.buyTokens(buyConfig) has settled.
MainAfterBuy ==
    /\ main = "buy" /\ call[1].pc = "done"
    /\ main' = IF call[1].thrown THEN MainCatch ELSE "returned"
    /\ UNCHANGED <<sdk, init, call, submissions, disk, klass, balance, files,
                   load, quote, extraVars>>

-----------------------------------------------------------------------------
\* The slippage floor

\* Expected outputs and slippage tolerances quoted.
MaxExpected == 40
Expecteds == 0..MaxExpected \cup {29970}
Tolerances == {0, 1, 100, 500, 5000, 9999, 10000}

NoQuote == [expected |-> 0, bps |-> 0, floor |-> -1]

\* The floor of a quote is computed.
ComputeFloor ==
    /\ quote.floor = -1
    /\ quote' = [quote EXCEPT !.floor = MinAcceptable(quote.expected, quote.bps)]
    /\ UNCHANGED <<sdk, init, call, submissions, disk, klass, balance, main,
                   files, load, extraVars>>

-----------------------------------------------------------------------------
\* ProviderManager (utils/provider.ts) and getDevnetRpcUrl / isDevnet
\* (config/devnet.ts).  A string is the sequence of its pieces: a URL of the
\* parts that startsWith and includes look for, a number string of its
\* characters.

\* DEVNET_CONFIG.RPC_ENDPOINTS.DEFAULT, "https://api.devnet.solana.com"
DefaultRpcUrl == <<"http", "s://api.", "devnet", ".solana.com">>
MainnetUrl == <<"http", "s://api.", "mainnet", "-beta.solana.com">>
HeliusUrl == <<"http", "s://rpc-", "devnet", ".helius.xyz">>
SocketUrl == <<"ws", "s://api.", "devnet", ".solana.com">>

\* A JavaScript number or undefined.
Undefined == [type |-> "undefined", nan |-> FALSE, n |-> 0]
NaN == [type |-> "number", nan |-> TRUE, n |-> 0]
Num(k) == [type |-> "number", nan |-> FALSE, n |-> k]

\* An environment variable or an optional field: unset, or set to a value.
Unset == [set |-> FALSE, value |-> <<>>]
Set(v) == [set |-> TRUE, value |-> v]
NoFee == [set |-> FALSE, value |-> Undefined]

\* A string in a condition or on the left of ||: the empty string and an
\* unset variable are falsy.
Truthy(slot) == slot.set /\ slot.value # <<>>

DigitOf == ("0" :> 0) @@ ("1" :> 1) @@ ("2" :> 2) @@ ("3" :> 3) @@ ("4" :> 4)
           @@ ("5" :> 5) @@ ("6" :> 6) @@ ("7" :> 7) @@ ("8" :> 8) @@ ("9" :> 9)

\* The digits of radix 16.
HexDigitOf ==
    DigitOf @@ ("a" :> 10) @@ ("b" :> 11) @@ ("c" :> 12) @@ ("d" :> 13)
            @@ ("e" :> 14) @@ ("f" :> 15) @@ ("A" :> 10) @@ ("B" :> 11)
            @@ ("C" :> 12) @@ ("D" :> 13) @@ ("E" :> 14) @@ ("F" :> 15)

\* White space parseInt skips at the start of the string (StrWhiteSpaceChar:
\* the white space and the line terminators of the language).  A string is
\* the sequence of its characters; a character a TLA+ string cannot hold is
\* written by its code point.
WhiteSpace ==
    {"\t", "\n", "U+000B", "\f", "\r", " ", "U+00A0", "U+1680",
     "U+2000", "U+2001", "U+2002", "U+2003", "U+2004", "U+2005", "U+2006",
     "U+2007", "U+2008", "U+2009", "U+200A", "U+2028", "U+2029", "U+202F",
     "U+205F", "U+3000", "U+FEFF"}

\* s without its leading white space.
RECURSIVE TrimStart(_)
TrimStart(s) ==
    IF s # <<>> /\ Head(s) \in WhiteSpace THEN TrimStart(Tail(s)) ELSE s

\* The leading digits of s read as a number in the radix, NaN when s starts
\* with none.
RECURSIVE LeadingDigits(_, _, _, _)
LeadingDigits(s, radix, acc, seen) ==
    LET digits == IF radix = 16 THEN HexDigitOf ELSE DigitOf IN
    IF s # <<>> /\ Head(s) \in DOMAIN digits
    THEN LeadingDigits(Tail(s), radix, acc * radix + digits[Head(s)], TRUE)
    ELSE IF seen THEN Num(acc) ELSE NaN

\* parseInt(s) without a radix: leading white space is skipped, then an
\* optional sign, then an optional 0x or 0X that makes the radix 16, then
\* the leading digits; what follows them is ignored.
ParseInt(s) ==
    LET t == TrimStart(s)
        negative == t # <<>> /\ Head(t) = "-"
        u == IF t # <<>> /\ Head(t) \in {"+", "-"} THEN Tail(t) ELSE t
        hex == Len(u) >= 2 /\ u[1] = "0" /\ u[2] \in {"x", "X"}
        v == IF hex THEN LeadingDigits(Tail(Tail(u)), 16, 0, FALSE)
             ELSE LeadingDigits(u, 10, 0, FALSE)
    IN  IF v.nan THEN NaN
        ELSE IF negative THEN Num(0 - v.n)
        ELSE v

\* Values process.env may hold for the four variables the constructor reads.
EnvUrls == {Unset, Set(<<>>), Set(HeliusUrl), Set(MainnetUrl)}
EnvCommitments == {Unset, Set(<<"finalized">>), Set(<<"recent">>)}
EnvFees ==
    {Unset, Set(<<>>), Set(<<"5">>), Set(<<"-", "5">>), Set(<<"a", "b">>),
     Set(<<" ", "-", "5">>), Set(<<"+", "5">>), Set(<<"0", "x", "1", "0">>),
     Set(<<"\f", "-", "5">>), Set(<<" ", "U+00A0", "5">>)}
Envs ==
    [DEVNET_RPC_URL : EnvUrls, HELIUS_DEVNET_RPC_URL : EnvUrls,
     HELIUS_RPC_URL : {Unset},
     COMMITMENT : EnvCommitments, PRIORITY_FEE : EnvFees]

\* A process.env with nothing set.
NoEnv ==
    [DEVNET_RPC_URL |-> Unset, HELIUS_DEVNET_RPC_URL |-> Unset,
     HELIUS_RPC_URL |-> Unset,
     COMMITMENT |-> Unset, PRIORITY_FEE |-> Unset]

\* The Partial<ProviderConfig> a caller may pass to the constructor.
GivenConfigs ==
    [rpcUrl : {Unset, Set(<<>>), Set(SocketUrl), Set(DefaultRpcUrl)},
     commitment : {Unset, Set(<<"processed">>), Set(<<"max">>)},
     priorityFee : {NoFee, Set(Num(0)), Set(Num(-1))}]

\* Variant: the Helius variable is looked at first.
GetDevnetRpcUrlHeliusFirst ==
    IF Truthy(env.HELIUS_DEVNET_RPC_URL) THEN env.HELIUS_DEVNET_RPC_URL.value
    ELSE IF Truthy(env.DEVNET_RPC_URL) THEN env.DEVNET_RPC_URL.value
    ELSE DefaultRpcUrl

\* getDevnetRpcUrl()
GetDevnetRpcUrl ==
    IF Truthy(env.DEVNET_RPC_URL) THEN env.DEVNET_RPC_URL.value
    ELSE IF Truthy(env.HELIUS_DEVNET_RPC_URL) THEN env.HELIUS_DEVNET_RPC_URL.value
    ELSE DefaultRpcUrl

\* isDevnet(rpcUrl)
IsDevnet(rpcUrl) ==
    \E i \in DOMAIN rpcUrl : rpcUrl[i] \in {"devnet", "testnet"}

\* The config the constructor builds: the defaults from the environment,
\* overridden by the fields the caller passed.
NewConfig(given) ==
    [rpcUrl      |-> IF given.rpcUrl.set THEN given.rpcUrl.value
                     ELSE GetDevnetRpcUrl,
     commitment  |-> IF given.commitment.set THEN given.commitment.value
                     ELSE IF Truthy(env.COMMITMENT) THEN env.COMMITMENT.value
                     ELSE <<"confirmed">>,
     priorityFee |-> IF given.priorityFee.set THEN given.priorityFee.value
                     ELSE IF Truthy(env.PRIORITY_FEE)
                          THEN ParseInt(env.PRIORITY_FEE.value)
                     ELSE Undefined]

\* validateConfig(): the four checks in order, each pushing its message.
ValidateConfig(config) ==
    LET errors ==
            (IF config.rpcUrl = <<>> THEN <<"No RPC URL configured">> ELSE <<>>)
         \o (IF ~(config.rpcUrl # <<>> /\ Head(config.rpcUrl) = "http")
             THEN <<"Invalid RPC URL format">> ELSE <<>>)
         \o (IF config.commitment \notin
                   {<<"processed">>, <<"confirmed">>, <<"finalized">>}
             THEN <<"Invalid commitment level">> ELSE <<>>)
         \o (IF /\ config.priorityFee.type # "undefined"
                /\ ~config.priorityFee.nan
                /\ config.priorityFee.n < 0
             THEN <<"Priority fee must be non-negative">> ELSE <<>>)
    IN  [isValid |-> errors = <<>>, errors |-> errors]

\* No ProviderManager constructed yet.
NoProvider ==
    [made |-> FALSE,
     given |-> [rpcUrl |-> Unset, commitment |-> Unset, priorityFee |-> NoFee],
     config |-> [rpcUrl |-> <<>>, commitment |-> <<>>, priorityFee |-> Undefined],
     validated |-> FALSE,
     validation |-> [isValid |-> FALSE, errors |-> <<>>]]

\* What a call on the ProviderManager leaves alone.
providerFrame ==
    <<sdk, init, call, submissions, disk, klass, balance, main, files, load,
      quote, env, ex, chain, keys>>

\* new ProviderManager(given)
NewProviderManager ==
    /\ ~provider.made
    /\ \E given \in GivenConfigs :
         provider' = [provider EXCEPT !.made = TRUE, !.given = given,
                                      !.config = NewConfig(given)]
    /\ UNCHANGED providerFrame

\* providerManager.validateConfig()
CallValidateConfig ==
    /\ provider.made
    /\ provider' = [provider EXCEPT !.validated = TRUE,
                                    !.validation = ValidateConfig(provider.config)]
    /\ UNCHANGED providerFrame

-----------------------------------------------------------------------------
\* getOrCreateKeypair (example/basic/index.ts) over the files of one folder.
\* A keypair is identified by its secret key, a tuple of bytes (shortened to
\* two); the file holds the JSON text of the array of those bytes.

\* Calls of getOrCreateKeypair that are followed.
MaxKeyCalls == 4

\* The two names main asks for.
KeyNames == {"test-account", "mint"}

\* Secret keys new Keypair() may draw.
SecretKeys == {<<1, 255>>, <<0, 7>>, <<255, 0>>}

\* The decimal text of a byte.
ByteText == (0 :> "0") @@ (1 :> "1") @@ (7 :> "7") @@ (255 :> "255")

\* JSON.stringify(Array.from(keypair.secretKey)): the numbers' texts.
JsonStringify(bytes) == [i \in DOMAIN bytes |-> ByteText[bytes[i]]]

\* JSON.parse of such a text: the array of numbers.
JsonParse(text) ==
    [i \in DOMAIN text |-> CHOOSE b \in DOMAIN ByteText : ByteText[b] = text[i]]

\* new Uint8Array(array): each number modulo 256.
Uint8Array(array) == [i \in DOMAIN array |-> array[i] % 256]

NoFile == [exists |-> FALSE, text |-> <<>>]

NoKeys ==
    [folder |-> FALSE,
     files |-> [n \in KeyNames |-> NoFile],
     writes |-> [n \in KeyNames |-> 0],
     returned |-> <<>>]

\* The folder left by an earlier run that stored the test account only.
StoredTestAccount ==
    [NoKeys EXCEPT !.folder = TRUE,
                   !.files["test-account"] =
                        [exists |-> TRUE, text |-> JsonStringify(<<0, 7>>)]]

\* What getOrCreateKeypair leaves alone.
keyFrame ==
    <<sdk, init, call, submissions, disk, klass, balance, main, files, load,
      quote, env, provider, ex, chain>>

\* Variant: the file is never found, a keypair is generated on every call.
FileExistsNever(k, name) == FALSE

\* existsSync(filePath), the folder being in state k
FileExists(k, name) == k.files[name].exists

\* The folder after getOrCreateKeypair(folder, name) on state k, secret
\* being what new Keypair() draws: the folder is made when missing; an
\* existing file is read and parsed, otherwise the new keypair is written.
KeysAfter(k, name, secret) ==
    IF FileExists(k, name)
    THEN [k EXCEPT
            !.folder = TRUE,
            !.returned = Append(@,
                [name |-> name, created |-> FALSE,
                 key |-> Uint8Array(JsonParse(k.files[name].text))])]
    ELSE [k EXCEPT
            !.folder = TRUE,
            !.files[name] = [exists |-> TRUE, text |-> JsonStringify(secret)],
            !.writes[name] = @ + 1,
            !.returned = Append(@,
                [name |-> name, created |-> TRUE, key |-> secret])]

\* getOrCreateKeypair(folder, name)
GetOrCreateKeypair(name) ==
    /\ Len(keys.returned) < MaxKeyCalls
    /\ \E secret \in SecretKeys : keys' = KeysAfter(keys, name, secret)
    /\ UNCHANGED keyFrame


-----------------------------------------------------------------------------
\* The basic example (example/basic/index.ts): main and the createAndBuyToken,
\* buyTokens and sellTokens it calls, against a ledger holding the test
\* account's SOL, its token accounts and the bonding curve of the mint.

\* const SLIPPAGE_BASIS_POINTS = 100n
SLIPPAGE_BASIS_POINTS == 100

\* BigInt(0.0001 * LAMPORTS_PER_SOL)
ExampleBuyLamports == 100000

\* Raw amount of tokens a successful createAndBuy credits to the buyer.
BoughtRaw == 3500000

\* DEFAULT_DECIMALS of the SDK
DEFAULT_DECIMALS == 6

\* Math.pow(10, DEFAULT_DECIMALS)
TokenUnit == 10 ^ DEFAULT_DECIMALS

\* Bits after the leading one in the significand of a double.
SignificandBits == 52

\* The whole part of the binary logarithm of n, for 1 <= n < 2^31.
Log2(n) == CHOOSE b \in 0..30 : 2 ^ b <= n /\ n \div 2 < 2 ^ b

\* How often n must be doubled to reach m, for 1 <= n < m.
DoublingsToReach(n, m) == Log2((m - 1) \div n) + 1

\* r * 2^k modulo m, for r < m <= 10^6: ten doublings at a time.
RECURSIVE DoubledMod(_, _, _)
DoubledMod(r, k, m) ==
    IF k >= 10 THEN DoubledMod((r * 1024) % m, k - 10, m)
    ELSE (r * 2 ^ k) % m

\* Whether uiAmount * 10^6 is a whole number in double arithmetic, uiAmount
\* being the double nearest to raw / 10^6 (raw > 0).  With 2^t <= raw / 10^6
\* < 2^(t+1) the significand of uiAmount is raw * 2^(52-t) / 10^6 rounded to
\* a whole number; d is what the rounding adds, in units of 10^-6 * 2^(t-52),
\* so the exact product is raw + d * 2^(t-52).  It rounds back to raw when d
\* is within half the spacing of the doubles around raw, and is no whole
\* number otherwise: 0.000123 * 1e6 = 123.00000000000001.
ProductIsWhole(raw) ==
    LET t == IF raw >= TokenUnit THEN Log2(raw \div TokenUnit)
             ELSE 0 - DoublingsToReach(raw, TokenUnit)
        b == Log2(raw)
        r == DoubledMod(raw % TokenUnit, SignificandBits - t, TokenUnit)
        d == IF 2 * r < TokenUnit THEN 0 - r ELSE TokenUnit - r
        half == 2 ^ (b - t - 1)
    IN  IF d < 0 /\ raw = 2 ^ b THEN 2 * (0 - d) <= half
        ELSE IF d < 0 THEN 0 - d <= half
        ELSE d <= half

\* BigInt(tokenBalance * Math.pow(10, DEFAULT_DECIMALS)) for the uiAmount of
\* raw: the raw amount again, or a RangeError when the product is not whole.
SellAmount(raw) ==
    IF ProductIsWhole(raw) THEN [throws |-> FALSE, amount |-> raw]
    ELSE [throws |-> TRUE, amount |-> 0]

\* A token account of the test account.
TokenAccount(m, raw) == [mint |-> m, raw |-> raw]

\* Token accounts the test account may own when the script starts, in the
\* order getParsedTokenAccountsByOwner lists them.
TokenLists ==
    {<<>>,
     <<TokenAccount("other", 0)>>,
     <<TokenAccount("mint", 5000000)>>,
     <<TokenAccount("mint", 33333333)>>,
     <<TokenAccount("mint", 123)>>,
     <<TokenAccount("other", 249), TokenAccount("mint", 5000000)>>,
     <<TokenAccount("other", 7000000)>>,
     <<TokenAccount("other", 7000000), TokenAccount("mint", 5000000)>>,
     <<TokenAccount("mint", 0), TokenAccount("other", 7000000)>>,
     <<TokenAccount("mint", 5000000), TokenAccount("other", 7000000)>>}

\* SOL the test account may hold, in units of one purchase with its fees.
SolBalances == {0, 1, 2}

ExOff == [pc |-> "off", sol |-> -1, curve |-> FALSE, buyDone |-> FALSE,
          outcome |-> "none"]
NoChain == [sol |-> 0, curve |-> FALSE, tokens |-> <<>>, txs |-> <<>>]

\* What the example leaves alone.
exFrame ==
    <<sdk, init, call, submissions, disk, klass, balance, main, files, load,
      quote, env, provider>>

\* The raw balance the test account holds of mint m (0 without an account).
Held(m) ==
    IF \E i \in DOMAIN chain.tokens : chain.tokens[i].mint = m
    THEN chain.tokens[CHOOSE i \in DOMAIN chain.tokens :
                          chain.tokens[i].mint = m].raw
    ELSE 0

\* A transaction handed to the SDK by function by, with what the test
\* account held and what main had read when it was handed over.
Tx(by, m, amount, r) ==
    [by |-> by, mint |-> m, amount |-> amount, result |-> r,
     held |-> Held(m), sol |-> chain.sol,
     readSol |-> ex.sol, readCurve |-> ex.curve]

\* The ledger after a successful createAndBuy of mint m: the purchase is
\* paid for and the bought tokens are in a new token account.
AfterCreateAndBuy(m, r) ==
    IF r = "ok"
    THEN [chain EXCEPT
            !.sol = IF @ > 0 THEN @ - 1 ELSE 0,
            !.curve = IF m = "mint" THEN TRUE ELSE @,
            !.tokens = Append(@, TokenAccount(m, BoughtRaw)),
            !.txs = Append(@, Tx(IF m = "mint" THEN "createAndBuyToken"
                                 ELSE "buyTokens", m, ExampleBuyLamports, r))]
    ELSE [chain EXCEPT
            !.txs = Append(@, Tx(IF m = "mint" THEN "createAndBuyToken"
                                 ELSE "buyTokens", m, ExampleBuyLamports, r))]

\* main ends: "completed" after the last log line, "caught" in its catch.
ExEnd(o) == [ex EXCEPT !.pc = "done", !.outcome = o]

\* Variant: main does not look at the balance it read.
HasSolUnchecked(b) == TRUE

\* currentSolBalance > 0
HasSol(b) == b > 0

\* main up to its first await: getProvider throws when neither URL variable
\* is set; otherwise the two keypairs are read or created, and
\* printSOLBalance is awaited.
ExStart ==
    /\ ex.pc = "start"
    /\ IF ~Truthy(env.DEVNET_RPC_URL) /\ ~Truthy(env.HELIUS_RPC_URL)
       THEN ex' = ExEnd("caught") /\ keys' = keys
       ELSE /\ ex' = [ex EXCEPT !.pc = "print"]
            /\ \E first \in SecretKeys, second \in SecretKeys :
                 keys' = KeysAfter(KeysAfter(keys, "test-account", first),
                                   "mint", second)
    /\ UNCHANGED chain
    /\ UNCHANGED exFrame

\* printSOLBalance has printed the balance, or logged that it could not;
\* main asks for the balance itself.
ExPrint ==
    /\ ex.pc = "print"
    /\ ex' = [ex EXCEPT !.pc = "balance"]
    /\ UNCHANGED chain
    /\ UNCHANGED <<keys, exFrame>>

\* currentSolBalance = await connection.getBalance(testAccount.publicKey)
ExGetBalance ==
    /\ ex.pc = "balance"
    /\ \E rpcOk \in BOOLEAN :
         ex' = IF rpcOk THEN [ex EXCEPT !.pc = "curve1", !.sol = chain.sol]
               ELSE ExEnd("caught")
    /\ UNCHANGED chain
    /\ UNCHANGED <<keys, exFrame>>

\* Where main goes once bondingCurveAccount holds curve: the second if.
AfterCurve(curve) ==
    IF curve /\ HasSol(ex.sol)
    THEN [ex EXCEPT !.pc = "buy", !.curve = curve]
    ELSE [ExEnd("completed") EXCEPT !.curve = curve]

\* bondingCurveAccount = await sdk.getBondingCurveAccount(mint.publicKey),
\* then the first if: no curve and a positive balance call createAndBuyToken.
ExCurve1 ==
    /\ ex.pc = "curve1"
    /\ \E rpcOk \in BOOLEAN :
         ex' = IF ~rpcOk THEN ExEnd("caught")
               ELSE IF ~chain.curve /\ HasSol(ex.sol)
               THEN [ex EXCEPT !.pc = "create", !.curve = FALSE]
               ELSE AfterCurve(chain.curve)
    /\ UNCHANGED chain
    /\ UNCHANGED <<keys, exFrame>>

\* createAndBuyToken: sdk.createAndBuy for the mint has answered.  After a
\* success printSPLBalance is awaited; otherwise the function logs and
\* returns, and main reads the bonding curve again.
ExCreate ==
    /\ ex.pc = "create"
    /\ \E r \in {"ok", "fail", "throw"} :
         /\ chain' = AfterCreateAndBuy("mint", r)
         /\ ex' = [ex EXCEPT !.pc = IF r = "ok" THEN "createLogs" ELSE "curve2"]
    /\ UNCHANGED <<keys, exFrame>>

\* printSPLBalance has printed or logged; createAndBuyToken returns and main
\* reads the bonding curve again.
ExCreateReturn ==
    /\ ex.pc = "createLogs"
    /\ ex' = [ex EXCEPT !.pc = "curve2"]
    /\ UNCHANGED chain
    /\ UNCHANGED <<keys, exFrame>>

\* The bonding curve is read again after createAndBuyToken.
ExCurve2 ==
    /\ ex.pc = "curve2"
    /\ \E rpcOk \in BOOLEAN :
         ex' = IF rpcOk THEN AfterCurve(chain.curve) ELSE ExEnd("caught")
    /\ UNCHANGED chain
    /\ UNCHANGED <<keys, exFrame>>

\* buyTokens: the workaround, sdk.createAndBuy for a freshly generated
\* temporary mint, has answered.
\* After a success printSPLBalance is awaited; otherwise buyTokens logs and
\* returns, and main calls sellTokens, which lists the token accounts.
ExBuy ==
    /\ ex.pc = "buy"
    /\ \E r \in {"ok", "fail", "throw"} :
         /\ chain' = AfterCreateAndBuy("temp", r)
         /\ ex' = IF r = "ok" THEN [ex EXCEPT !.pc = "buyLogs"]
                  ELSE [ex EXCEPT !.pc = "sell", !.buyDone = TRUE]
    /\ UNCHANGED <<keys, exFrame>>

\* printSPLBalance has printed or logged; buyTokens asks for the bonding
\* curve of the temporary mint.
ExBuyLogs ==
    /\ ex.pc = "buyLogs"
    /\ ex' = [ex EXCEPT !.pc = "buyCurve"]
    /\ UNCHANGED chain
    /\ UNCHANGED <<keys, exFrame>>

\* The curve of the temporary mint is logged (a throw is logged by the
\* catch); buyTokens returns and main calls sellTokens.
ExBuyReturn ==
    /\ ex.pc = "buyCurve"
    /\ ex' = [ex EXCEPT !.pc = "sell", !.buyDone = TRUE]
    /\ UNCHANGED chain
    /\ UNCHANGED <<keys, exFrame>>

\* Index of the first listed token account with a positive balance, 0 when
\* there is none.
FirstWithBalance(tokens) ==
    IF \E i \in DOMAIN tokens : tokens[i].raw > 0
    THEN CHOOSE i \in DOMAIN tokens :
            /\ tokens[i].raw > 0
            /\ \A j \in 1..(i - 1) : tokens[j].raw = 0
    ELSE 0

\* sellTokens: getParsedTokenAccountsByOwner has answered.  Without a token
\* account holding a balance the function returns; otherwise sdk.sell is
\* called for the mint with the balance of the first account found.
ExSellList ==
    /\ ex.pc = "sell"
    /\ \E rpcOk \in BOOLEAN :
         LET first == FirstWithBalance(chain.tokens)
             amount == SellAmount(chain.tokens[first].raw)
         IN  IF ~rpcOk \/ first = 0
             THEN ex' = ExEnd("completed") /\ chain' = chain
             ELSE IF amount.throws
             THEN ex' = ExEnd("completed") /\ chain' = chain
             ELSE /\ ex' = [ex EXCEPT !.pc = "sellResult"]
                  /\ chain' = [chain EXCEPT !.txs =
                        Append(@, Tx("sellTokens", "mint", amount.amount, "none"))]
    /\ UNCHANGED <<keys, exFrame>>

\* Answers of sdk.sell: it succeeds only for an amount the account holds.
SellResults(tx) ==
    {"fail", "throw"} \cup (IF tx.amount <= Held(tx.mint) THEN {"ok"} ELSE {})

\* sdk.sell has answered.  After a success printSOLBalance is awaited;
\* otherwise the answer is logged, sellTokens returns and main completes.
ExSellResult ==
    /\ ex.pc = "sellResult"
    /\ \E r \in SellResults(chain.txs[Len(chain.txs)]) :
         /\ chain' = [chain EXCEPT !.txs[Len(chain.txs)].result = r]
         /\ ex' = IF r = "ok" THEN [ex EXCEPT !.pc = "sellPrint"]
                  ELSE ExEnd("completed")
    /\ UNCHANGED <<keys, exFrame>>

\* printSOLBalance has printed or logged; sellTokens asks for the bonding
\* curve of the mint.
ExSellPrint ==
    /\ ex.pc = "sellPrint"
    /\ ex' = [ex EXCEPT !.pc = "sellCurve"]
    /\ UNCHANGED chain
    /\ UNCHANGED <<keys, exFrame>>

\* The curve is logged (a throw is logged by the catch); sellTokens returns
\* and main completes.
ExSellReturn ==
    /\ ex.pc = "sellCurve"
    /\ ex' = ExEnd("completed")
    /\ UNCHANGED chain
    /\ UNCHANGED <<keys, exFrame>>

\* The object, the wallet files and the quote while a script or the
\* ProviderManager runs, and the scripts while the object runs.
ExtrasIdle ==
    /\ env = NoEnv
    /\ provider = NoProvider
    /\ ex = ExOff
    /\ chain = NoChain
    /\ keys = NoKeys

-----------------------------------------------------------------------------
\* Vocabulary shared by the properties

Buys == {c \in Calls : call[c].op = "buy"}

Ended(c, e) == call[c].op = "buy" /\ call[c].pc = "done" /\ call[c].outcome = e

\* The call has invoked sdk.buy and the invocation has returned or thrown.
PastSubmit(c) ==
    /\ call[c].op = "buy"
    /\ \/ call[c].pc \in {"confirm", "info2"}
       \/ /\ call[c].pc = "done"
          /\ call[c].outcome \in {"network", "Buy failed", "Transaction failed",
                                  "timeout", "info", "resolved"}

SubmissionsOf(intent) ==
    {i \in DOMAIN submissions : submissions[i].intent = intent}

-----------------------------------------------------------------------------
\* C1: a buyTokens call never ends as a success whose output is below the
\* floor declared at submission: a call that resolves has made a submission
\* that the ledger confirmed with realised output >= the floor computed from
\* the call's slippage tolerance; every other finished call ended in an error.
Thm_C1_NoSuccessBelowFloor ==
    \A c \in Buys :
        /\ call[c].pc = "done" => call[c].outcome # "none"
        /\ Ended(c, "resolved") =>
              /\ call[c].sig \in DOMAIN submissions
              /\ LET s == submissions[call[c].sig]
                 IN  /\ s.status = "ok"
                     /\ s.floor = MinAcceptable(ExpectedOut,
                                                EffectiveSlippage(call[c].slip))
                     /\ s.realized >= s.floor

\* C1 witness: a call resolved although the price had moved (inside the
\* tolerance), while another call's trade was rejected by the floor check.
Wit_C1_ResolvedAfterPriceMove ==
    \E c \in Buys, d \in Buys :
        /\ Ended(c, "resolved")
        /\ submissions[call[c].sig].realized < ExpectedOut
        /\ Ended(d, "Transaction failed")
        /\ submissions[call[d].sig].status = "err"

\* C2 as stated: when two calls with the same intent have both returned
\* success, sdk.buy has been invoked once for that intent.
Orig_C2_SubmittedOncePerIntent ==
    \A c \in Buys, d \in Buys :
        (c # d /\ Intent(c) = Intent(d) /\ Ended(c, "resolved") /\ Ended(d, "resolved"))
            => Cardinality(SubmissionsOf(Intent(c))) = 1

\* C2 amended: buyTokens keeps no record of earlier calls, so every call that
\* reaches the buy invokes sdk.buy once more: the number of sdk.buy
\* invocations for an intent is the number of calls with that intent that
\* have got past the buy, whatever the earlier calls' outcomes were.
Thm_C2_OneSubmitPerCall ==
    \A c \in Buys :
        Cardinality(SubmissionsOf(Intent(c)))
            = Cardinality({d \in Buys : Intent(d) = Intent(c) /\ PastSubmit(d)})

\* C2 witness: the same intent was executed twice, both calls resolved, and
\* sdk.buy was invoked twice for it.
Wit_C2_SameIntentTwice ==
    \E c \in Buys, d \in Buys :
        /\ c # d /\ Intent(c) = Intent(d)
        /\ Ended(c, "resolved") /\ Ended(d, "resolved")
        /\ Cardinality(SubmissionsOf(Intent(c))) = 2

\* C3 as stated: when a submission's confirmation wait timed out and the
\* ledger has confirmed it all the same, no other submission of that intent
\* is confirmed.
Orig_C3_OneConfirmedPerIntent ==
    \A i \in DOMAIN submissions, j \in DOMAIN submissions :
        (/\ i # j
         /\ submissions[i].intent = submissions[j].intent
         /\ submissions[i].wait = "timeout"
         /\ submissions[i].status = "ok")
            => submissions[j].status # "ok"

\* C3 amended: within one buyTokens call there is at most one confirmed
\* submission, and a call whose confirmation wait timed out ends with that
\* error after the single wait (it is not re-queried and never becomes
\* Confirmed); nothing stops a later call from confirming the intent again.
Thm_C3_OneConfirmedPerCall ==
    /\ \A c \in Buys :
          Cardinality({i \in DOMAIN submissions :
                          submissions[i].call = c /\ submissions[i].status = "ok"}) <= 1
    /\ \A i \in DOMAIN submissions :
          submissions[i].wait = "timeout"
              => /\ submissions[i].polls = 1
                 /\ Ended(submissions[i].call, "timeout")

\* C3 witness: a submission timed out for its caller, the ledger confirmed it,
\* and a second submission of the same intent is confirmed too.
Wit_C3_DoubleConfirmed ==
    \E i \in DOMAIN submissions, j \in DOMAIN submissions :
        /\ i # j
        /\ submissions[i].intent = submissions[j].intent
        /\ submissions[i].wait = "timeout" /\ submissions[i].status = "ok"
        /\ submissions[j].status = "ok"

\* The step appends a submission made by call c.
SubmitStep(c) ==
    /\ Len(submissions') = Len(submissions) + 1
    /\ submissions'[Len(submissions')].call = c

\* C4 as stated: a submission of an intent that follows a timed-out submission
\* of the same intent is made only after a further status query on the
\* timed-out one (a query after the wait that timed out).
Orig_C4_RequeryBeforeResubmit ==
    [][\A c \in Calls :
          SubmitStep(c) =>
              \A i \in DOMAIN submissions :
                  (submissions[i].intent = Intent(c) /\ submissions[i].wait = "timeout")
                      => submissions[i].polls >= 2]_vars

\* C4 amended: buyTokens never resubmits and never re-queries: every sdk.buy
\* is the first of its call and is issued without any status query (the
\* earlier submissions are left as they are), and a submission's status is
\* asked at most once, by the confirmTransaction of the call that made it.
Thm_C4_NoRequeryNoResubmit ==
    [][\A c \in Calls :
          /\ SubmitStep(c) =>
                /\ SubmitsBy(c) = 0
                /\ \A i \in DOMAIN submissions : submissions'[i] = submissions[i]
          /\ \A i \in DOMAIN submissions' : submissions'[i].polls <= 1]_vars

\* C4 witness: a submission has timed out and a call with the same intent is
\* about to submit it again.
Wit_C4_ResubmitAfterTimeout ==
    \E i \in DOMAIN submissions, c \in Buys :
        /\ submissions[i].wait = "timeout" /\ submissions[i].polls = 1
        /\ submissions[i].intent = Intent(c)
        /\ call[c].pc = "submit"
        /\ ENABLED BuySubmit(c)

\* C5 as stated: of two calls with the same intent that are in flight at the
\* same time, at most one submits.
Orig_C5_OneConcurrentSubmitter ==
    \A c \in Buys, d \in Buys :
        (c # d /\ Intent(c) = Intent(d))
            => ~(call[c].pc = "confirm" /\ call[d].pc = "confirm")

\* C5 amended: TokenBuyer has no serialisation point: a call that has reached
\* the buy can always issue it, whatever the other calls have submitted, so
\* concurrent calls with the same intent each submit.
Thm_C5_SubmitNeverHeldBack ==
    \A c \in Calls :
        (call[c].op = "buy" /\ call[c].pc = "submit") => ENABLED BuySubmit(c)

\* C5 witness: two calls with the same intent are both waiting for the
\* confirmation of their own submission.
Wit_C5_BothSubmitted ==
    \E c \in Buys, d \in Buys :
        /\ c # d /\ Intent(c) = Intent(d)
        /\ call[c].pc = "confirm" /\ call[d].pc = "confirm"
        /\ call[c].sig # call[d].sig

\* C6 as stated (maximum retry count 3): a call that ends on a NetworkError
\* of sdk.buy has made three attempts.
Orig_C6_ThreeAttempts ==
    \A c \in Buys : Ended(c, "network") => SubmitsBy(c) = 3

\* C6 amended: buyTokens does not retry: a call that ends because sdk.buy
\* threw (or returned success = false) has made exactly one attempt, which
\* never reached the ledger and was never polled; the first failure is
\* rethrown to the caller.
Thm_C6_FailsAfterOneAttempt ==
    \A c \in Buys :
        (Ended(c, "network") \/ Ended(c, "Buy failed")) =>
            /\ SubmitsBy(c) = 1
            /\ \A i \in DOMAIN submissions :
                  submissions[i].call = c =>
                      /\ submissions[i].result =
                            (IF Ended(c, "network") THEN "throw" ELSE "fail")
                      /\ submissions[i].status = "none"
                      /\ submissions[i].polls = 0

\* C6 witness: a call ended on a NetworkError of sdk.buy.
Wit_C6_NetworkErrorSurfaced ==
    \E c \in Buys : Ended(c, "network") /\ SubmitsBy(c) = 1

\* The state of a call's submission, read off the call's locals: "created"
\* until sdk.buy has returned a signature, "submitted" while the confirmation
\* is awaited, then what confirmTransaction answered.
Status(c) ==
    CASE call[c].op # "buy"                        -> "none"
      [] call[c].pc \in {"info1", "lookup", "submit"} -> "created"
      [] call[c].pc = "confirm"                    -> "submitted"
      [] call[c].pc = "info2"                      -> "confirmed"
      [] call[c].sig = 0                           -> "created"
      [] call[c].outcome = "Transaction failed"    -> "rejected"
      [] call[c].outcome = "timeout"               -> "timedout"
      [] OTHER                                     -> "confirmed"

\* C8: a call's submission moves only created -> submitted -> (confirmed |
\* rejected | timedout); it leaves "submitted" only in the step that takes the
\* answer of confirmTransaction for it, and a terminal state never changes
\* (nor does the signature, once assigned).
Thm_C8_SubmissionLifecycle ==
    [][\A c \in Calls :
          /\ Status(c)' # Status(c) =>
                /\ <<Status(c), Status(c)'>> \in
                      {<<"none", "created">>, <<"created", "submitted">>,
                       <<"submitted", "confirmed">>, <<"submitted", "rejected">>,
                       <<"submitted", "timedout">>}
                /\ Status(c) = "submitted" =>
                      submissions'[call[c].sig].polls = submissions[call[c].sig].polls + 1
          /\ Status(c) \in {"confirmed", "rejected", "timedout"} =>
                Status(c)' = Status(c)
          /\ call[c].sig # 0 => call'[c].sig = call[c].sig]_vars

\* C8 witness: one submission is in a terminal state (timed out, while the
\* ledger has since confirmed it) and another call's is confirmed.
Wit_C8_TerminalStates ==
    \E c \in Buys, d \in Buys :
        /\ Status(c) = "timedout" /\ submissions[call[c].sig].status = "ok"
        /\ Status(d) = "confirmed" /\ call[d].pc = "done"

\* C9 as stated: once sdk.buy has returned a signature, a record of the
\* submission is on durable storage.
Orig_C9_RecordedBeforeReturn ==
    \A c \in Buys :
        call[c].sig # 0 => [kind |-> "submission", sig |-> call[c].sig] \in disk

\* C9 amended: buyTokens writes nothing to durable storage: after a successful
\* sdk.buy the signature is held only in the call's locals (and printed), so
\* no record of it exists from which it could be recovered after a crash.
Thm_C9_NothingPersisted ==
    \A c \in Buys : call[c].sig # 0 => disk = {}

\* C9 witness: a call holds the signature of a submission the ledger has
\* executed, and is still waiting for the confirmation.
Wit_C9_SubmittedInFlight ==
    \E c \in Buys :
        /\ call[c].pc = "confirm"
        /\ submissions[call[c].sig].status = "ok"

\* C10 as stated: a call whose confirmation wait timed out has made a new
\* submission attempt before it ends.
Orig_C10_TimeoutRetried ==
    \A c \in Buys : Ended(c, "timeout") => SubmitsBy(c) >= 2

\* C10 amended: when the confirmation wait times out buyTokens throws without
\* a new attempt: a call makes at most one attempt, a timed-out call has made
\* exactly one (the one that timed out), and submissions are told apart by
\* their signatures alone, which differ between calls.
Thm_C10_TimeoutNotRetried ==
    /\ \A c \in Buys :
          /\ SubmitsBy(c) <= 1
          /\ Ended(c, "timeout") =>
                /\ SubmitsBy(c) = 1
                /\ submissions[call[c].sig].call = c
                /\ submissions[call[c].sig].wait = "timeout"
    /\ \A c \in Buys, d \in Buys :
          (c # d /\ call[c].sig # 0) => call[c].sig # call[d].sig

\* C10 witness: two calls with the same intent each made one attempt, and
\* both timed out.
Wit_C10_TimedOutOnce ==
    \E c \in Buys, d \in Buys :
        /\ c # d /\ Intent(c) = Intent(d)
        /\ Ended(c, "timeout") /\ Ended(d, "timeout")


-----------------------------------------------------------------------------
\* C11 as stated: a call whose submission the ledger finalised with an error
\* ends rejected, the error it raises carries the ledger's error detail, and
\* the rejected submission is not submitted again (the call has invoked
\* sdk.buy once).
Orig_C11_RejectedCarriesDetail ==
    \A c \in Buys :
        Ended(c, "Transaction failed") =>
            /\ submissions[call[c].sig].status = "err"
            /\ call[c].msg = submissions[call[c].sig].err.detail
            /\ SubmitsBy(c) = 1

-----------------------------------------------------------------------------
\* C12: for every expected output and every slippage tolerance in 0..10000 the
\* floor is a whole number between 0 and the expected output, and it is the
\* exact value expected * (10000 - bps) / 10000 rounded down, so it differs
\* from the exact value by less than one unit; for the expected output 29970
\* of the reserves (30_000_000, 1_000_000_000) with quoteIn 1_000_000, the
\* floor at 500 basis points is 28471 (a 5% haircut of 29970 is 28471.5).
Thm_C12_FloorWithinOneUnit ==
    quote.floor # -1 =>
        /\ quote.floor \in 0..quote.expected
        /\ quote.floor * 10000 <= quote.expected * (10000 - quote.bps)
        /\ quote.expected * (10000 - quote.bps) < (quote.floor + 1) * 10000
        /\ (quote.expected = 29970 /\ quote.bps = 500) => quote.floor = 28471

\* C12 witness: the floor of the example quote has been computed, and it is
\* below the expected output.
Wit_C12_ExampleFloor ==
    /\ quote.expected = 29970 /\ quote.bps = 500
    /\ quote.floor # -1 /\ quote.floor < quote.expected

-----------------------------------------------------------------------------
\* Calls whose slippage the caller chooses.
ChoosesSlippage(c) == call[c].op \in {"buy", "create"}

\* The slippage tolerance a submission was made with.
SlippageOf(i) == submissions[i].intent[3]

\* C13 as stated: a call whose slippage tolerance lies outside 0..10000 hands
\* nothing to the SDK.
Orig_C13_OutOfRangeNeverSubmitted ==
    \A i \in DOMAIN submissions :
        ChoosesSlippage(submissions[i].call) => SlippageOf(i) \in 0..10000

\* C13 as the code has it: buyTokens and createAndBuyToken do not look at the
\* range of slippageBasisPoints.  What sdk.buy / sdk.createAndBuy receives is
\* the caller's value as given (500 when the field is absent), inside or
\* outside 0..10000, and no call fails on account of the slippage: a call
\* that ends without having invoked the SDK has failed on the sdk check, the
\* wallet, the mint address or the bonding-curve lookup.
Thm_C13_SlippageForwardedUnchecked ==
    /\ \A i \in DOMAIN submissions :
          LET c == submissions[i].call
          IN  ChoosesSlippage(c) =>
                 SlippageOf(i) = IF call[c].slip = NoSlippage THEN 500
                                 ELSE call[c].slip
    /\ \A c \in Calls :
          (ChoosesSlippage(c) /\ call[c].pc = "done" /\ SubmitsBy(c) = 0) =>
              call[c].outcome \in {"SDK not initialized", "wallet",
                                   "Invalid public key", "rpc", "Token not found"}

\* C13 witness: a buy with slippage 10001 was handed to the SDK, which
\* returned a signature, and the call went on to the confirmation.
Wit_C13_OutOfRangeSubmitted ==
    \E i \in DOMAIN submissions :
        /\ call[submissions[i].call].op = "buy"
        /\ SlippageOf(i) = 10001
        /\ submissions[i].result = "ok" /\ submissions[i].polls > 0

-----------------------------------------------------------------------------
\* C14 as stated: a call whose account holds less than the amount to spend
\* (let alone amount plus fee) never reaches the SDK.
Orig_C14_LowBalanceNeverSubmitted ==
    \A c \in Calls : SubmitsBy(c) > 0 => balance >= BuyAmountLamports

\* C14 as the code has it: the balance is read only by checkWalletBalance
\* inside initializeSDK, and a balance below the minimum only prints a
\* warning.  initializeSDK resolves whenever the read succeeds, having warned
\* exactly when the balance is below the minimum (0.01 SOL for TokenBuyer,
\* 0.05 SOL for TokenCreator), and it fails only on the wallet, the provider
\* or the read itself.
Thm_C14_LowBalanceOnlyWarns ==
    /\ init.outcome \in {"none", "resolved", "wallet", "provider", "rpc"}
    /\ (init.pc = "done" /\ init.outcome = "resolved") =>
          (init.warned <=> balance < MinBalance)
    /\ init.outcome # "resolved" => ~init.warned

\* C14 witness: initializeSDK has warned about an empty account and resolved,
\* and a buyTokens call has then handed its buy to the SDK.
Wit_C14_SubmittedWithEmptyAccount ==
    /\ balance = 0 /\ init.warned /\ init.outcome = "resolved"
    /\ \E c \in Calls : call[c].op = "buy" /\ SubmitsBy(c) = 1

-----------------------------------------------------------------------------
\* The call trades a mint that is a valid address without a bonding curve.
Unlisted(c) ==
    call[c].op \in {"buy", "sell"} /\ call[c].mint \notin Curves \cup {"bad"}

\* C15 as stated: a buy or sell of a mint that has no bonding-curve account
\* hands nothing to the SDK.
Orig_C15_UnlistedNeverSubmitted ==
    \A c \in Calls : Unlisted(c) => SubmitsBy(c) = 0

\* C15 as the code has it: buyTokens looks the bonding curve up and throws
\* "Token not found on Pump.fun" before sdk.buy, so a buy of an unlisted mint
\* never invokes the SDK and ends with that error unless something failed
\* earlier.  sellTokens does no lookup: once it has its wallet and mint it
\* invokes sdk.sell, listed mint or not, and it never ends with "Token not
\* found".
Thm_C15_OnlyBuyLooksUp ==
    \A c \in Calls :
        /\ (Unlisted(c) /\ call[c].op = "buy") =>
              /\ SubmitsBy(c) = 0
              /\ call[c].pc \in {"info1", "lookup", "done"}
              /\ call[c].pc = "done" =>
                    call[c].outcome \in {"SDK not initialized", "wallet", "rpc",
                                         "Token not found"}
        /\ call[c].op = "sell" =>
              /\ call[c].outcome # "Token not found"
              /\ call[c].pc = "submit" => ENABLED SellSubmit(c)

\* C15 witness: a sell of an unlisted mint has been handed to sdk.sell, which
\* reported a failure.
Wit_C15_UnlistedSellIssued ==
    \E c \in Calls :
        /\ Unlisted(c) /\ call[c].op = "sell" /\ SubmitsBy(c) = 1
        /\ call[c].pc = "done" /\ call[c].outcome = "Sell failed"

-----------------------------------------------------------------------------
\* Failures the specification expects of an operation: asset not found,
\* rejected, timed out, network error, a failed submission.
ExpectedFailures ==
    {"Token not found", "Transaction failed", "timeout", "network", "Buy failed"}

\* C16 as stated: a call that ends in an expected failure hands it to its
\* caller as a returned value, and the program does not end on it.
Orig_C16_FailuresAreValues ==
    \A c \in Calls :
        (call[c].pc = "done" /\ call[c].outcome \in ExpectedFailures) =>
            ~call[c].thrown /\ main # "exit1"

\* C16 as the code has it: buyTokens returns nothing; every failure, expected
\* or not, leaves it as a thrown Error (the catch block logs and rethrows),
\* and none is swallowed.  main catches whatever listWallets, initializeSDK
\* or buyTokens throws, logs it and ends the process with exit code 1 (after
\* a throw of listWallets neither call has been made); it returns normally
\* only when both calls resolved.
Thm_C16_FailuresThrownMainExits ==
    /\ \A c \in Calls :
          call[c].pc = "done" => (call[c].thrown <=> call[c].outcome # "resolved")
    /\ main = "exit1" =>
          \/ init.pc = "idle" /\ call[1].pc = "idle"
          \/ init.pc = "done" /\ init.outcome # "resolved"
          \/ call[1].pc = "done" /\ call[1].thrown
    /\ main = "returned" =>
          /\ init.outcome = "resolved"
          /\ call[1].pc = "done" /\ call[1].outcome = "resolved"

\* C16 witness: buyTokens threw "Token not found" and main ended the process
\* with exit code 1.
Wit_C16_ExitOnTokenNotFound ==
    /\ main = "exit1"
    /\ call[1].pc = "done" /\ call[1].thrown /\ call[1].outcome = "Token not found"

-----------------------------------------------------------------------------
\* confirmTransaction has answered call c without err: the operation is
\* confirmed.
Confirmed(c) == call[c].sig # 0 /\ submissions[call[c].sig].wait = "ok"

\* C17 as stated: once an operation is confirmed, a failed re-read of the
\* token's state is only logged; the call raises no error and its outcome
\* stays the confirmed one.
Orig_C17_RereadOnlyLogged ==
    \A c \in Calls :
        (Confirmed(c) /\ call[c].pc = "done") =>
            ~call[c].thrown /\ call[c].outcome = "resolved"

-----------------------------------------------------------------------------
\* C18: buyTokens, sellTokens and createAndBuyToken wait for the confirmation.
\* A call resolves only when confirmTransaction has answered without err for
\* the signature its own SDK call returned; confirmTransaction is asked only
\* by a call whose SDK call has returned, with the signature of that result
\* (none for a result that has none); and a confirmation carrying err makes
\* the call throw "Transaction failed".
Thm_C18_ResolvesOnlyAfterConfirmation ==
    /\ \A c \in Calls :
          /\ (/\ call[c].op \in {"buy", "sell", "create"}
              /\ call[c].pc = "done" /\ call[c].outcome = "resolved") =>
                /\ call[c].sig \in DOMAIN submissions
                /\ submissions[call[c].sig].call = c
                /\ submissions[call[c].sig].result = "ok"
                /\ submissions[call[c].sig].status = "ok"
                /\ submissions[call[c].sig].wait = "ok"
          /\ call[c].pc \in {"idle", "info1", "lookup", "submit"} =>
                call[c].sig = 0
          /\ (call[c].sig # 0 /\ submissions[call[c].sig].wait = "err") =>
                /\ call[c].pc = "done" /\ call[c].thrown
                /\ call[c].outcome = "Transaction failed"
    /\ \A i \in DOMAIN submissions :
          submissions[i].polls > 0 =>
              /\ submissions[i].result # "throw"
              /\ call[submissions[i].call].sig =
                    IF submissions[i].result = "ok" THEN i ELSE 0

\* C18 witness: a sellTokens call has resolved after its confirmation.
Wit_C18_SellResolvedAfterConfirm ==
    \E c \in Calls :
        /\ call[c].op = "sell" /\ call[c].pc = "done"
        /\ call[c].outcome = "resolved"
        /\ submissions[call[c].sig].polls = 1

-----------------------------------------------------------------------------
\* The files loadTradingWallet / loadTestWallet look at.
JsonFileOf(fn) ==
    IF fn = "loadTradingWallet" THEN "trading-wallet.json" ELSE "test-wallet.json"
KeyFileOf(fn) ==
    IF fn = "loadTradingWallet" THEN "trading-private_key.txt"
    ELSE "test-private_key.txt"

\* C19: loadTradingWallet and loadTestWallet prefer the JSON wallet.  Whenever
\* the JSON file loads, the call returns that keypair and has not looked at
\* the private-key file; it looks at the private-key file only when the JSON
\* load failed, and then returns that file's keypair if it loads; it throws
\* exactly when both loads fail.
Thm_C19_JsonWalletPreferred ==
    load.fn \in {"loadTradingWallet", "loadTestWallet"} =>
        LET jsonFile == JsonFileOf(load.fn)
            keyFile == KeyFileOf(load.fn)
            json == LoadWalletFromFile(jsonFile)
            key == LoadWalletFromPrivateKey(keyFile)
        IN  /\ json.ok => (load.result = Keypair(jsonFile) /\ keyFile \notin load.touched)
            /\ keyFile \in load.touched => ~json.ok
            /\ (~json.ok /\ key.ok) => load.result = Keypair(keyFile)
            /\ ~load.result.ok <=> (~json.ok /\ ~key.ok)

\* C19 witness: both files of the trading wallet hold a good key, and
\* loadTradingWallet returned the JSON one without touching the other.
Wit_C19_BothLoadJsonReturned ==
    /\ load.fn = "loadTradingWallet"
    /\ files["trading-wallet.json"] = JsonArray(KeyLength, TRUE, FALSE)
    /\ files["trading-private_key.txt"] = CsvList(KeyLength, TRUE)
    /\ load.result = Keypair("trading-wallet.json")
    /\ load.touched = {"trading-wallet.json"}

-----------------------------------------------------------------------------
\* C20: loadWalletFromFile returns a keypair only when the file exists and
\* holds a JSON array of exactly 64 entries, loadWalletFromPrivateKey only
\* when the file exists and holds exactly 64 comma-separated entries; a
\* missing file, content that does not parse, a JSON value that is no array,
\* or any other number of entries makes the call throw.
Thm_C20_KeypairOnlyFrom64Entries ==
    /\ load.fn = "loadWalletFromFile" =>
          (load.result.ok <=>
              /\ files[load.arg].exists
              /\ files[load.arg].json = "array"
              /\ files[load.arg].jsonLen = 64
              /\ files[load.arg].jsonKey)
    /\ load.fn = "loadWalletFromPrivateKey" =>
          (load.result.ok <=>
              /\ files[load.arg].exists
              /\ files[load.arg].csvLen = 64
              /\ files[load.arg].csvKey)
    /\ load.fn \in {"loadWalletFromFile", "loadWalletFromPrivateKey"} =>
          /\ load.result.ok => load.result.key = load.arg
          /\ ~load.result.ok => load.result.error # ""

\* C20 witness: loadWalletFromFile threw on a JSON array of 65 entries.
Wit_C20_WrongLengthThrows ==
    /\ load.fn = "loadWalletFromFile"
    /\ files[load.arg] = JsonArray(KeyLength + 1, FALSE, FALSE)
    /\ ~load.result.ok

\* C21: the provider is configured for devnet by default.  With neither URL
\* variable holding a value and no rpcUrl passed, the rpcUrl is the default
\* https://api.devnet.solana.com, for which isDevnet holds; a value in
\* DEVNET_RPC_URL wins over one in HELIUS_DEVNET_RPC_URL, which wins over the
\* default; an rpcUrl passed to the constructor wins over all three.
Thm_C21_DevnetByDefault ==
    provider.made =>
        LET url == provider.config.rpcUrl IN
        /\ IsDevnet(DefaultRpcUrl)
        /\ provider.given.rpcUrl.set => url = provider.given.rpcUrl.value
        /\ ~provider.given.rpcUrl.set =>
              /\ Truthy(env.DEVNET_RPC_URL) => url = env.DEVNET_RPC_URL.value
              /\ ~Truthy(env.DEVNET_RPC_URL) /\ Truthy(env.HELIUS_DEVNET_RPC_URL)
                    => url = env.HELIUS_DEVNET_RPC_URL.value
              /\ ~Truthy(env.DEVNET_RPC_URL) /\ ~Truthy(env.HELIUS_DEVNET_RPC_URL)
                    => url = DefaultRpcUrl /\ IsDevnet(url)

\* Both variables hold different URLs, none was passed, and the provider
\* uses the one in DEVNET_RPC_URL.
Wit_C21_DevnetVariableWins ==
    /\ provider.made
    /\ ~provider.given.rpcUrl.set
    /\ env.DEVNET_RPC_URL = Set(MainnetUrl)
    /\ env.HELIUS_DEVNET_RPC_URL = Set(HeliusUrl)
    /\ provider.config.rpcUrl = MainnetUrl
    /\ ~IsDevnet(provider.config.rpcUrl)

\* C22 as stated (its second half): submissions of one intent are
\* serialised: no two of them are pending on the ledger at the same time.
Orig_C22_IdenticalIntentsSerialized ==
    \A i \in DOMAIN submissions, j \in DOMAIN submissions :
        (i # j /\ submissions[i].intent = submissions[j].intent)
            => ~(submissions[i].status = "pending"
                 /\ submissions[j].status = "pending")

\* C22 amended: TokenBuyer enforces no mutual exclusion on the account at
\* all: while one call awaits the confirmation of its submission, every other
\* call that has reached sdk.buy can issue it, whether its intent is a
\* different one or the same.
Thm_C22_NoMutualExclusion ==
    \A c \in Calls, d \in Calls :
        (/\ c # d
         /\ call[d].pc = "confirm"
         /\ call[c].op = "buy" /\ call[c].pc = "submit")
            => ENABLED BuySubmit(c)

\* C22 witness: two calls with distinct intents on the one account both
\* await the confirmation of their own pending submission.
Wit_C22_DistinctBothSubmitted ==
    \E c \in Buys, d \in Buys :
        /\ Intent(c) # Intent(d)
        /\ call[c].pc = "confirm" /\ call[d].pc = "confirm"
        /\ call[c].sig # call[d].sig
        /\ submissions[call[c].sig].status = "pending"
        /\ submissions[call[d].sig].status = "pending"

\* The continuation of a call after one of its awaits: the step the call
\* takes when the awaited promise has settled.
Continue(c) ==
    \/ BuyInfo1(c) \/ BuyLookup(c) \/ BuySubmit(c) \/ BuyConfirm(c) \/ BuyInfo2(c)
    \/ SellSubmit(c) \/ SellConfirm(c)
    \/ CreateSubmit(c) \/ CreateConfirm(c) \/ CreateInfo(c)
    \/ CreateSave(c) \/ CreateReturn(c)
    \/ GetTokenInfoAnswer(c) \/ CheckWalletBalanceAnswer(c)

\* The terminal outcomes the claim lists, in the words of the code: Confirmed
\* (the call resolves), Rejected (the confirmation carries err) and the
\* precondition errors.  No outcome of the code is "exhausted retries".
ListedOutcomes ==
    {"resolved", "Transaction failed",
     "SDK not initialized", "wallet", "Invalid public key", "Token not found"}

\* The errors of an awaited call that a call rethrows as they come.
RethrownErrors == {"rpc", "network", "timeout", "info", "Buy failed"}

\* The place of an await in the text of its method: the methods are
\* straight-line code, a later await has a higher place.
Position(pc) ==
    CASE pc = "idle"                              -> 0
      [] pc \in {"info1", "curve", "getBalance"} -> 1
      [] pc = "lookup"                            -> 2
      [] pc = "submit"                            -> 3
      [] pc = "confirm"                           -> 4
      [] pc = "info2"                             -> 5
      [] pc = "save"                              -> 6
      [] pc = "saved"                             -> 7
      [] pc = "done"                              -> 8

\* C23 as stated: whatever the SDK and the RPC node answer, a buyTokens call
\* ends only with one of the listed terminal outcomes: Confirmed, Rejected,
\* a precondition error, or Failed once its retries are exhausted (of which
\* the code has none).
Orig_C23_EndsInListedOutcome ==
    \A c \in Buys :
        call[c].pc = "done" => call[c].outcome \in ListedOutcomes

\* C23 amended: the code has no wait budget and no retry count; what bounds
\* a call is its shape.  No submission is waited for more than once and no
\* call submits more than once; a call that has not ended is waiting on one
\* await whose continuation can run whatever the answer is; every step of a
\* call moves it to a later await or ends it; and a buyTokens call that has
\* ended has a listed outcome or has rethrown the error of an awaited call
\* after its single attempt.  Whether a call ends is left to the awaited
\* promises: nothing in the code makes one settle.
Thm_C23_OneAttemptNoBudget ==
    /\ [](\A i \in DOMAIN submissions : submissions[i].polls <= 1)
    /\ [](\A c \in Calls : SubmitsBy(c) <= 1)
    /\ [](\A c \in Calls :
            call[c].pc \notin {"idle", "done"} => ENABLED Continue(c))
    /\ [][\A c \in Calls :
            call'[c].pc # call[c].pc =>
                Position(call'[c].pc) > Position(call[c].pc)]_vars
    /\ [](\A c \in Buys :
            call[c].pc = "done" =>
                call[c].outcome \in ListedOutcomes \cup RethrownErrors)

\* C23 witness: a buy has ended on a confirmation that timed out, after one
\* submission and one wait, the transaction still pending on the ledger.
Wit_C23_EndedOnTimeout ==
    \E c \in Buys :
        /\ Ended(c, "timeout")
        /\ SubmitsBy(c) = 1
        /\ submissions[LastSubmission(c)].result = "ok"
        /\ submissions[LastSubmission(c)].polls = 1
        /\ submissions[LastSubmission(c)].status = "pending"

\* The call has thrown 'SDK not initialized'.
Refused(c) == call[c].pc = "done" /\ call[c].outcome = "SDK not initialized"

\* C24: nothing is done before initializeSDK has constructed the SDK: a
\* buyTokens, sellTokens, createAndBuyToken, getTokenInfo or
\* checkWalletBalance called while this.sdk is unset has thrown
\* 'SDK not initialized' at once, without a wallet load (no wallet error),
\* without a lookup and without a submission.
Thm_C24_NothingBeforeInitialize ==
    /\ \A c \in Calls :
          (/\ call[c].op \in {"buy", "sell", "create", "info", "balance"}
           /\ call[c].pc # "idle" /\ ~Refused(c)) => sdk
    /\ \A c \in Calls :
          Refused(c) => call[c].thrown /\ call[c].sig = 0
    /\ submissions # <<>> => sdk

\* C24 witness: a sell was called on an object whose SDK is not constructed
\* and has thrown; nothing was submitted.
Wit_C24_SellBeforeInitialize ==
    \E c \in Calls :
        /\ ~sdk
        /\ call[c].op = "sell"
        /\ Refused(c)
        /\ submissions = <<>>

\* C25 as stated: initializeSDK is all-or-nothing: whenever it has thrown,
\* the object is left without an SDK, and every call made on it is refused
\* with 'SDK not initialized'.
Orig_C25_InitializeAllOrNothing ==
    (init.pc = "done" /\ init.outcome # "resolved") =>
        /\ ~sdk
        /\ \A c \in Calls : call[c].pc # "idle" => Refused(c)

\* C26 as stated: a result with success = false is never taken for a
\* submission: confirmTransaction is not called for it, and the call that
\* received it throws instead of going on.
Orig_C26_FailedResultNeverConfirmed ==
    \A i \in DOMAIN submissions :
        submissions[i].result = "fail" =>
            /\ submissions[i].polls = 0
            /\ call[submissions[i].call].pc = "done"
            /\ call[submissions[i].call].thrown

\* C27 as stated: no transaction is handed to the SDK for a test account
\* whose SOL balance is 0.
Orig_C27_NothingForEmptyAccount ==
    \A i \in DOMAIN chain.txs : chain.txs[i].sol > 0

\* C27 amended: main submits nothing for a test account whose balance it
\* read as 0, at its one read of the balance.  createAndBuyToken is called
\* only when main read no bonding curve and a positive balance; buyTokens and
\* sellTokens only when main holds a bonding curve and read a positive
\* balance; and sellTokens starts only after buyTokens has returned.  The
\* balance is not read again: what the account holds when a later
\* transaction is handed over is not looked at.
Thm_C27_NothingWithoutSol ==
    /\ ex.sol <= 0 => chain.txs = <<>>
    /\ \A i \in DOMAIN chain.txs :
          LET tx == chain.txs[i] IN
          /\ tx.readSol > 0
          /\ tx.by = "createAndBuyToken" => ~tx.readCurve
          /\ tx.by \in {"buyTokens", "sellTokens"} => tx.readCurve
          /\ tx.by = "sellTokens" => ex.buyDone
    /\ ex.pc \in {"sell", "sellResult", "sellPrint", "sellCurve"} => ex.buyDone
    /\ ex.pc \in {"buy", "buyLogs", "buyCurve", "sell", "sellResult",
                  "sellPrint", "sellCurve"} => ex.curve /\ ex.sol > 0
    /\ ex.pc \in {"create", "createLogs", "curve2"} => ex.sol > 0

\* C27 witness: main read a positive balance and no bonding curve;
\* createAndBuyToken spent the balance, and buyTokens has handed a purchase
\* to the SDK for the account that now holds no SOL.
Wit_C27_BuyAfterSolSpent ==
    \E i \in DOMAIN chain.txs, j \in DOMAIN chain.txs :
        /\ i < j
        /\ chain.txs[i].by = "createAndBuyToken" /\ chain.txs[i].result = "ok"
        /\ chain.txs[j].by = "buyTokens"
        /\ chain.txs[j].sol = 0 /\ chain.txs[j].readSol > 0

\* C28 as stated: sellTokens submits no sell for an account without a token
\* account holding a balance, and the amount of a sell it submits is the
\* account's balance of the mint being sold.
Orig_C28_SellsBalanceOfMint ==
    \A i \in DOMAIN chain.txs :
        chain.txs[i].by = "sellTokens" =>
            /\ chain.txs[i].held > 0
            /\ chain.txs[i].amount = chain.txs[i].held

\* The keypairs returned so far for name, in call order.
ReturnedFor(name) ==
    SelectSeq(keys.returned, LAMBDA r : r.name = name)

\* C29: getOrCreateKeypair is stable.  The first call for a name creates a
\* keypair and writes its file; every later call for that name returns the
\* same keypair and writes nothing; and a call for one name leaves the file
\* of every other name as it was.
Thm_C29_KeypairStable ==
    /\ [](\A n \in KeyNames :
            LET rs == ReturnedFor(n) IN
            /\ keys.writes[n] <= 1
            /\ keys.files[n].exists <=> rs # <<>>
            /\ \A i \in DOMAIN rs :
                  /\ rs[i].key = rs[1].key
                  /\ rs[i].created <=> i = 1
                  /\ JsonStringify(rs[i].key) = keys.files[n].text)
    /\ [][\A n \in KeyNames :
            (/\ Len(keys'.returned) = Len(keys.returned) + 1
             /\ keys'.returned[Len(keys'.returned)].name # n)
                => /\ keys'.files[n] = keys.files[n]
                   /\ keys'.writes[n] = keys.writes[n]]_vars

\* C29 witness: two calls for "test-account" with a call for "mint" between
\* them; the third call returned the keypair of the first, and one file was
\* written for each name.
Wit_C29_SameKeypairAgain ==
    /\ Len(keys.returned) = 3
    /\ keys.returned[1].name = "test-account"
    /\ keys.returned[2].name = "mint"
    /\ keys.returned[3].name = "test-account"
    /\ keys.returned[3].key = keys.returned[1].key
    /\ keys.returned[2].key # keys.returned[1].key
    /\ ~keys.returned[3].created
    /\ keys.writes["test-account"] = 1 /\ keys.writes["mint"] = 1

\* The number is zero or more (NaN is not).
NonNegative(v) == v.type = "number" /\ ~v.nan /\ v.n >= 0

\* C30 as stated: validateConfig answers isValid = true exactly when the RPC
\* URL is non-empty and starts with "http", the commitment is one of
\* processed, confirmed, finalized, and the priority fee is undefined or
\* non-negative; and it leaves the configuration as the constructor built it.
Orig_C30_ValidExactlyWhenRulesHold ==
    provider.validated =>
        LET config == provider.config IN
        /\ provider.validation.isValid <=>
              /\ config.rpcUrl # <<>> /\ Head(config.rpcUrl) = "http"
              /\ config.commitment \in
                    {<<"processed">>, <<"confirmed">>, <<"finalized">>}
              /\ config.priorityFee = Undefined \/ NonNegative(config.priorityFee)
        /\ config = NewConfig(provider.given)

-----------------------------------------------------------------------------
\* Specifications

\* An empty wallets directory.
NoWallets == [f \in WalletFiles |-> Missing]

\* Calls on one TokenBuyer, interleaving at their awaits.
Init ==
    /\ NewObject
    /\ klass = "TokenBuyer"
    /\ balance = MIN_SOL_FOR_CREATION
    /\ main = "off"
    /\ files = NoWallets /\ load = NoLoad
    /\ quote = NoQuote
    /\ ExtrasIdle

Next ==
    \/ InitializeSDK
    \/ InitBalance
    \/ \E c \in Calls :
        \/ BuyTokens(c)
        \/ BuyInfo1(c)
        \/ BuyLookup(c)
        \/ BuySubmit(c)
        \/ BuyConfirm(c)
        \/ BuyInfo2(c)
    \/ \E i \in 1..NumCalls : LedgerFinalize(i)

Spec == Init /\ [][Next]_vars

\* One call at a time on a TokenBuyer or a TokenCreator, with any slippage
\* and any balance.
BuyTokensAny(c) == BuyTokensWith(c, AnySlippage)

OpsInit ==
    /\ NewObject
    /\ klass \in TokenBuyers \cup {"TokenCreator"}
    /\ balance \in Balances
    /\ main = "off"
    /\ files = NoWallets /\ load = NoLoad
    /\ quote = NoQuote
    /\ ExtrasIdle

OpsNext ==
    \/ InitializeSDK
    \/ InitBalance
    \/ BuyTokensAny(1)
    \/ BuyInfo1(1)
    \/ BuyLookup(1)
    \/ BuySubmit(1)
    \/ BuyConfirm(1)
    \/ BuyInfo2(1)
    \/ SellTokens(1)
    \/ SellSubmit(1)
    \/ SellConfirm(1)
    \/ CreateAndBuyToken(1)
    \/ CreateSubmit(1)
    \/ CreateConfirm(1)
    \/ CreateInfo(1)
    \/ CreateSave(1)
    \/ CreateReturn(1)
    \/ SaveMintInfo(1)
    \/ GetTokenInfo(1)
    \/ GetTokenInfoAnswer(1)
    \/ CheckWalletBalance(1)
    \/ CheckWalletBalanceAnswer(1)
    \/ LedgerFinalize(1)

OpsSpec == OpsInit /\ [][OpsNext]_vars

\* The buy-tokens script run once.
MainInit ==
    /\ NewObject
    /\ klass = "TokenBuyer"
    /\ balance \in Balances
    /\ main = "start"
    /\ files = NoWallets /\ load = NoLoad
    /\ quote = NoQuote
    /\ ExtrasIdle

MainNext ==
    \/ MainStart
    \/ main = "init" /\ InitializeSDK
    \/ main = "init" /\ InitBalance
    \/ MainAfterInit
    \/ MainBuyTokens
    \/ main = "buy" /\ BuyInfo1(1)
    \/ main = "buy" /\ BuyLookup(1)
    \/ main = "buy" /\ BuySubmit(1)
    \/ main = "buy" /\ BuyConfirm(1)
    \/ main = "buy" /\ BuyInfo2(1)
    \/ MainAfterBuy
    \/ LedgerFinalize(1)

MainSpec == MainInit /\ [][MainNext]_vars

\* Calls of the wallet loaders on any content of the wallets directory.
WalletInit ==
    /\ NewObject
    /\ klass = "TokenBuyer"
    /\ balance = MIN_SOL_FOR_CREATION
    /\ main = "off"
    /\ files \in [WalletFiles -> Contents] /\ load = NoLoad
    /\ quote = NoQuote
    /\ ExtrasIdle

WalletNext ==
    \/ \E f \in WalletFiles : CallLoadWalletFromFile(f)
    \/ \E f \in WalletFiles : CallLoadWalletFromPrivateKey(f)
    \/ LoadTradingWallet
    \/ LoadTestWallet

WalletSpec == WalletInit /\ [][WalletNext]_vars

\* The floor of any quote.
FloorInit ==
    /\ NewObject
    /\ klass = "TokenBuyer"
    /\ balance = MIN_SOL_FOR_CREATION
    /\ main = "off"
    /\ files = NoWallets /\ load = NoLoad
    /\ quote \in [expected : Expecteds, bps : Tolerances, floor : {-1}]
    /\ ExtrasIdle

FloorNext == ComputeFloor

FloorSpec == FloorInit /\ [][FloorNext]_vars

\* The object, the wallet files and the quote while one of the scripts or
\* the ProviderManager is exercised.
ObjectIdle ==
    /\ NewObject
    /\ klass = "TokenBuyer"
    /\ balance = MIN_SOL_FOR_CREATION
    /\ main = "off"
    /\ files = NoWallets /\ load = NoLoad
    /\ quote = NoQuote

\* ProviderSpec: a ProviderManager constructed under every environment and
\* every passed config, then validated.
ProviderInit ==
    /\ ObjectIdle
    /\ env \in Envs
    /\ provider = NoProvider
    /\ ex = ExOff /\ chain = NoChain /\ keys = NoKeys

ProviderNext ==
    \/ NewProviderManager
    \/ CallValidateConfig

ProviderSpec == ProviderInit /\ [][ProviderNext]_vars

\* ExampleSpec: the basic example run once, for every balance, curve and
\* set of token accounts of the test account.
ExampleInit ==
    /\ ObjectIdle
    /\ env \in {[NoEnv EXCEPT !.DEVNET_RPC_URL = u, !.HELIUS_RPC_URL = h] :
                   u \in {Unset, Set(HeliusUrl)}, h \in {Unset, Set(<<>>)}}
    /\ provider = NoProvider
    /\ ex = [ExOff EXCEPT !.pc = "start"]
    /\ chain \in [sol : SolBalances, curve : BOOLEAN, tokens : TokenLists,
                  txs : {<<>>}]
    /\ keys \in {NoKeys, StoredTestAccount}

ExampleNext ==
    \/ ExStart
    \/ ExPrint
    \/ ExGetBalance
    \/ ExCurve1
    \/ ExCreate
    \/ ExCreateReturn
    \/ ExCurve2
    \/ ExBuy
    \/ ExBuyLogs
    \/ ExBuyReturn
    \/ ExSellList
    \/ ExSellResult
    \/ ExSellPrint
    \/ ExSellReturn

ExampleSpec == ExampleInit /\ [][ExampleNext]_vars

\* KeySpec: getOrCreateKeypair called for either name, starting without the
\* folder.
KeyInit ==
    /\ ObjectIdle
    /\ env = NoEnv /\ provider = NoProvider
    /\ ex = ExOff /\ chain = NoChain
    /\ keys = NoKeys

KeyNext == \E name \in KeyNames : GetOrCreateKeypair(name)

KeySpec == KeyInit /\ [][KeyNext]_vars
====
